---- MODULE Spec2Model ----
(***************************************************************************)
(* Model of the Level Zero driver of PoCL                                  *)
(* (lib/CL/devices/level0/level0-driver.cc): the device's queue groups,    *)
(* their shared work queues, the queue worker threads and device teardown. *)
(***************************************************************************)
EXTENDS Integers, Sequences, FiniteSets, TLC

(* ---------------- bounds of the model ---------------- *)

\* number of commands (events) the enqueue side creates in one behaviour
MaxCmds == 2

\* number of operations with a signal event that one native list gets
MaxAppends == 2

\* the most commands of one comparison of data transfers
MaxTransfers == 2

\* the automatic local buffers of a kernel
MaxLocals == 2

\* the native lists createCmdBuf may create
MaxCmdBufs == 2

\* the numQueues a hardware queue family reports: a group has one worker, or
\* it has several
QueueCounts == {1, 2}

MaxCount == CHOOSE m \in QueueCounts : \A n \in QueueCounts : n <= m

(* ---------------- constants of the program ---------------- *)

Groups == {"Compute", "Copy", "Universal"}

\* the hardware report holds at most one useful family per queue group
MaxFamilies == Cardinality(Groups)

NoCmd == 0

Cmds == 1..MaxCmds

Workers == Groups \X (1..MaxCount)

\* command types that pushCommand sends to the compute class
ComputeKinds ==
  {"NDRANGE_KERNEL", "SVM_MEMFILL", "MEMFILL_INTEL", "FILL_BUFFER", "FILL_IMAGE"}

\* some of the other command types
OtherKinds == {"READ_BUFFER", "COPY_BUFFER", "COMMAND_BUFFER_KHR"}

AllKinds == ComputeKinds \cup OtherKinds

\* the writable USE_HOST_PTR buffers whose device memory is not their host
\* memory, and the pointers a kernel accesses indirectly
HostBuffers == {"buf"}
IndirectPtrs == {"usm"}

\* what a kernel launch carries: its total number of work-groups (zero or
\* not), the USE_HOST_PTR buffers among its migr_infos, and the accessed
\* pointers of its kernel
Shapes ==
  [ TotalWGs : {0, 1}, migr_infos : SUBSET HostBuffers,
    AccessedPointers : SUBSET IndirectPtrs ]

PlainShape == [ TotalWGs |-> 1, migr_infos |-> {}, AccessedPointers |-> {} ]

\* the commands recorded in the command buffer (CmdBuf->cmds): the launch of a
\* kernel with indirect accesses that writes a USE_HOST_PTR buffer
CmdBufCmds ==
  << [ type |-> "NDRANGE_KERNEL",
       shape |-> [ TotalWGs |-> 1, migr_infos |-> HostBuffers,
                   AccessedPointers |-> IndirectPtrs ] ] >>

\* nullptr as CmdBuf->data[dev_id]
NoCmdBufData == 0

\* an event that is no executed replay
NoReplay == [ data |-> NoCmdBufData, CmdListH |-> <<>>, Events |-> <<>> ]


\* flags of a hardware queue family
FamilyFlags ==
  { [compute |-> a, copy |-> b] : a \in BOOLEAN, b \in BOOLEAN }

Families ==
  { [compute |-> f.compute, copy |-> f.copy, numQueues |-> n] :
      f \in FamilyFlags, n \in QueueCounts }

RECURSIVE SeqsUpTo(_, _)
SeqsUpTo(S, n) ==
  IF n = 0 THEN { <<>> }
  ELSE LET shorter == SeqsUpTo(S, n - 1)
       IN  shorter \cup { Append(s, x) : s \in shorter, x \in S }

HardwareReports == SeqsUpTo(Families, MaxFamilies)

VARIABLES
  QGroupProps,          \* what zeDeviceGetCommandQueueGroupProperties reports
  PrefersZeQueues,      \* Device->prefersZeQueues() (else prefersHostQueues())
  SupportsCmdQBatching, \* Device->supportsCmdQBatching()
  devState,             \* "new", "ready", "failed", "teardown", "destroyed", "aborted"
  Available,            \* Level0QueueGroup::Available, per group
  NumQueues,            \* size of Level0QueueGroup::Queues, per group
  CreateQueue,          \* whether Level0QueueGroup::CreateQueue is set, per group
  ThreadExitRequested,  \* per group
  WorkQueue,            \* per group: FIFO of command nodes
  BatchWorkQueue,       \* per group: FIFO of batches (sequences of events)
  pc,                   \* per worker: position of its thread in runThread
  Command,              \* per worker: runThread's Command
  WorkBatch,            \* per worker: runThread's WorkBatch
  ShouldExit,           \* per worker: runThread's ShouldExit
  idx,                  \* per worker: position of the loop over a batch
  handles,              \* per worker: "none", "live", "destroyed" (QueueH, CmdListH)
  uninitPc,             \* per group: "idle", "clear", "done" (uninit())
  CmdBufData,           \* CmdBuf->data[dev_id]: null, or a Level0CmdBufferData
  CmdBufObjs,           \* the Level0CmdBufferData objects, in order of creation
  CBData,               \* per worker: the CmdBufData of execCommandBuffer
  replayed,             \* per event: what its replay submitted (history)
  status,               \* per event: "none", "queued", "submitted", "running", "complete"
  type,                 \* per command: its command type
  native,               \* per event: "none", "submitted", "synced" (its native list)
  nextId,               \* next event the enqueue side creates
  placed,               \* per command: the group whose work queue got it (history)
  fifo,                 \* per event: "single" or "batch", the FIFO it was pushed to (history)
  path,                 \* per event: the path runThread took with it (history)
  fetches,              \* per event: how many times a worker fetched it (history)
  EventPools,           \* Level0Device::EventPools, the front pool first
  AvailableDeviceEvents, \* per worker: FIFO of handles it may reuse
  DeviceEventsToReset,  \* per worker: FIFO of handles the open list signals
  CurrentEventH,        \* per worker
  PreviousEventH,       \* per worker
  listState,            \* per worker: "open" or "closed" (its CmdListH)
  CmdListOps,           \* per worker: the operations appended to its CmdListH
  UseMemHostPtrsToSync, \* per worker: the buffers to copy back to the host
  MemPtrsToMakeResident, \* per worker: the pointers to make resident
  shape,                \* per command: what a kernel launch carries
  madeResident,         \* per event: the pointers made resident for it (history)
  SupportsGlobalOffsets, \* Level0Device::supportsGlobalOffsets()
  transfers,            \* the read, write, copy and fill commands of a comparison
  memSingle,            \* the memory when they are executed one at a time
  doneSingle,           \* how many of them have been executed one at a time
  memBatch,             \* the memory when they are executed as one batch
  doneBatch,            \* whether the batch has been executed
  CreateQ,              \* the members of the CreateQueue of the universal group
  NativeLists,          \* the native lists of the CreateQueue, by handle
  ApiCall,              \* per caller of createCmdBuf: its position and locals
  CmdBufferData,        \* the Level0CmdBufferData createCmdBuf has returned
  kernelRun,            \* the kernel_run_command of an argument setup
  setupResult,          \* what pocl_setup_kernel_arg_array_with_locals returned
  syncCalls,            \* the calls of syncUseMemHostPtr made for one list
  syncDone,             \* how many of them have returned; past them: the list is closed
  hostList,             \* that list: its operations and its UseMemHostPtrsToSync
  FreeCall,             \* the freeCmdBuf of the command buffer the workers replay
  FillLaunch,           \* a call of memfillImpl: its arguments, and the launch it appends
  ZeCall,               \* per worker: the result of its last native call, the timeout of its last synchronize
  issued                \* the handles getNewEvent has returned, in order (history)

devVars == <<QGroupProps, PrefersZeQueues, SupportsCmdQBatching, devState>>
groupVars == <<Available, NumQueues, CreateQueue, ThreadExitRequested>>
queueVars == <<WorkQueue, BatchWorkQueue>>
workerVars == <<pc, Command, WorkBatch, ShouldExit, idx>>
cmdBufVars == <<CmdBufData, CmdBufObjs, CBData, replayed>>
eventVars == <<status, type, native>>
histVars == <<placed, fifo, path, fetches>>
listVars == <<CmdListOps, UseMemHostPtrsToSync, MemPtrsToMakeResident>>
poolVars == <<EventPools, AvailableDeviceEvents, DeviceEventsToReset,
              CurrentEventH, PreviousEventH, listState, issued>>

\* everything but the event pools and the handle sets of the workers
coreVars == <<devVars, groupVars, queueVars, workerVars, handles, uninitPc,
              cmdBufVars, eventVars, nextId, histVars, shape, madeResident>>

\* the comparison of the two ways to execute data transfers
transferVars == <<SupportsGlobalOffsets, transfers, memSingle, doneSingle,
                  memBatch, doneBatch>>

\* createCmdBuf and freeCmdBuf, called by the threads of the application
apiVars == <<CreateQ, NativeLists, ApiCall, CmdBufferData>>

\* what the workers and the enqueue side leave alone
\* the inputs and results of the functions checked on their own
pureVars == <<kernelRun, setupResult, syncCalls, syncDone, hostList,
             FreeCall, FillLaunch>>

sideVars == <<transferVars, apiVars, pureVars>>

vars == <<coreVars, listVars, poolVars, transferVars, apiVars, ZeCall,
          pureVars>>

(* ---------------- Level0EventPool ---------------- *)

\* the number of events of one pool (Level0Device::EventPoolSize)
EventPoolSize == 2

\* the pools the constructor of Level0Device creates
InitialPools == 4

\* nullptr as a ze_event_handle_t
NullEvent == << 0, 0 >>

\* Level0EventPool::Level0EventPool: a pool is known by the order of its
\* creation; its events are AvailableEvents[0 .. EventPoolSize - 1]
NewPool(n) == [ id |-> n, LastIdx |-> 0 ]

\* Level0EventPool::isEmpty
IsEmpty(pool) == pool.LastIdx >= EventPoolSize

\* getEvent that forgets to advance LastIdx
GetEventNoAdvance(pool) ==
  IF pool.LastIdx >= EventPoolSize
  THEN [ event |-> NullEvent, pool |-> pool ]
  ELSE [ event |-> << pool.id, pool.LastIdx + 1 >>, pool |-> pool ]

\* Level0EventPool::getEvent: the handle it returns and the pool afterwards
GetEvent(pool) ==
  IF pool.LastIdx >= EventPoolSize
  THEN [ event |-> NullEvent, pool |-> pool ]
  ELSE [ event |-> << pool.id, pool.LastIdx + 1 >>,
         pool |-> [pool EXCEPT !.LastIdx = @ + 1] ]

\* Level0Device::getNewEvent, under EventPoolLock: the pools once a fresh
\* pool is in front of an exhausted one
PoolsWithRoom(pools) ==
  IF IsEmpty(pools[1]) THEN << NewPool(Len(pools) + 1) >> \o pools ELSE pools

\* Level0Device::getNewEvent: the handle it returns and the pools afterwards
GetNewEvent(pools) ==
  LET ready == PoolsWithRoom(pools)
      got == GetEvent(ready[1])
  IN  [ event |-> got.event, pools |-> [ready EXCEPT ![1] = got.pool] ]

(* ---------------- Level0Device::setupQueueGroupProperties ---------------- *)

NoOrd == 0   \* UINT32_MAX: no such queue family

IsUniversalFamily(f) == f.compute /\ f.copy
IsComputeFamily(f) == f.compute /\ ~f.copy
IsCopyFamily(f) == ~f.compute /\ f.copy

\* the first family of the report with the flags of group g
FirstOrd(props, g) ==
  LET match(i) == CASE g = "Universal" -> IsUniversalFamily(props[i])
                    [] g = "Compute"   -> IsComputeFamily(props[i])
                    [] g = "Copy"      -> IsCopyFamily(props[i])
      found == { i \in 1..Len(props) : match(i) }
  IN  IF found = {} THEN NoOrd
      ELSE CHOOSE i \in found : \A j \in found : i <= j

Max(a, b) == IF a >= b THEN a ELSE b

\* the return value of setupQueueGroupProperties when the query succeeds
SetupSucceeds(props) ==
  ~ ( FirstOrd(props, "Universal") = NoOrd
      /\ ( FirstOrd(props, "Compute") = NoOrd \/ FirstOrd(props, "Copy") = NoOrd ) )

\* whether setupQueueGroupProperties calls init() on group g
GroupIsInitialized(props, g) == FirstOrd(props, g) # NoOrd

\* the Count that setupQueueGroupProperties passes to init() of group g
InitCount(props, g) ==
  IF ~GroupIsInitialized(props, g) THEN 0
  ELSE IF g = "Universal" THEN Max(1, props[FirstOrd(props, g)].numQueues)
  ELSE props[FirstOrd(props, g)].numQueues

(* ---------------- the data of read, write, copy and fill ---------------- *)

\* the buffers: A was created with CL_MEM_USE_HOST_PTR and its host copy is
\* apart from its device allocation; B has no host pointer
Mems ==
  [ A |-> [ use_host_ptr |-> TRUE, mem_ptr |-> 10, mem_host_ptr |-> 20 ],
    B |-> [ use_host_ptr |-> FALSE, mem_ptr |-> 30, mem_host_ptr |-> 0 ] ]

\* the units of a buffer
Units == {0, 1}

\* host memory of the application: what read and write get as host pointer
HostPtrs == {40, 41}

\* the value a fill writes
Pattern == 99

Range(ptr, size) == ptr .. (ptr + size - 1)

Addresses ==
  UNION { Range(Mems[m].mem_ptr, Cardinality(Units)) : m \in DOMAIN Mems }
  \cup Range(Mems.A.mem_host_ptr, Cardinality(Units))
  \cup HostPtrs

\* every unit of memory holds a value of its own
InitialMemory == [ a \in Addresses |-> a ]

TransferKinds == {"READ_BUFFER", "WRITE_BUFFER", "COPY_BUFFER", "FILL_BUFFER"}

\* the memory a command writes in the device allocation of its buffer
DeviceRegion(c) == Range(Mems[c.mem].mem_ptr + c.offset, c.size)

\* the memory a copy command reads
SourceRegion(c) == Range(Mems[c.src].mem_ptr + c.src_offset, c.size)

\* the read, write, copy and fill commands: a region of a buffer, and the
\* host pointer of a read or write or the source region of a copy
Transfers ==
  { c \in [ type : TransferKinds, mem : DOMAIN Mems, offset : Units,
            size : 1..Cardinality(Units), host_ptr : HostPtrs \cup {0},
            src : DOMAIN Mems, src_offset : Units ] :
      /\ c.offset + c.size <= Cardinality(Units)
      /\ IF c.type \in {"READ_BUFFER", "WRITE_BUFFER"}
         THEN Range(c.host_ptr, c.size) \subseteq HostPtrs
         ELSE c.host_ptr = 0
      /\ IF c.type = "COPY_BUFFER"
         THEN /\ c.src_offset + c.size <= Cardinality(Units)
              /\ SourceRegion(c) \cap DeviceRegion(c) = {}
         ELSE c.src = c.mem /\ c.src_offset = 0 }

\* the memory region a command targets: the host memory a read fills, or the
\* region of the buffer the others write together with its host copy
Targets(c) ==
  IF c.type = "READ_BUFFER" THEN Range(c.host_ptr, c.size)
  ELSE DeviceRegion(c) \cup
       ( IF Mems[c.mem].use_host_ptr
         THEN Range(Mems[c.mem].mem_host_ptr + c.offset, c.size) ELSE {} )

\* the sequences of commands that target disjoint memory regions
TransferSeqs ==
  { cs \in UNION { [ 1..n -> Transfers ] : n \in 0..MaxTransfers } :
      \A i, j \in 1..Len(cs) : i < j => Targets(cs[i]) \cap Targets(cs[j]) = {} }

\* a native list without operations, and no host copy to bring up to date
EmptyList == [ list |-> <<>>, sync |-> {} ]

\* zeCommandListAppendMemoryCopy
MemoryCopy(dst, src, size) ==
  [ op |-> "MemoryCopy", dst |-> dst, src |-> src, size |-> size ]

\* the launch of the fill kernel
MemoryFill(dst, size) ==
  [ op |-> "MemoryFill", dst |-> dst, src |-> 0, size |-> size ]

\* Level0Queue::read
ReadBuffer(t, c) ==
  IF Mems[c.mem].mem_ptr + c.offset = c.host_ptr THEN t
  ELSE [t EXCEPT !.list = Append(@,
          MemoryCopy(c.host_ptr, Mems[c.mem].mem_ptr + c.offset, c.size))]

\* Level0Queue::write
WriteBuffer(t, c) ==
  IF Mems[c.mem].mem_ptr + c.offset = c.host_ptr THEN t
  ELSE [t EXCEPT !.list = Append(@,
          MemoryCopy(Mems[c.mem].mem_ptr + c.offset, c.host_ptr, c.size))]

\* Level0Queue::copy
CopyBuffer(t, c) ==
  [t EXCEPT !.list = Append(@,
      MemoryCopy(Mems[c.mem].mem_ptr + c.offset,
                 Mems[c.src].mem_ptr + c.src_offset, c.size))]

\* Level0Queue::memFill and memfillImpl: the kernel fills from the offset only
\* on a device with global offsets
MemFill(t, c) ==
  [t EXCEPT !.list = Append(@,
      MemoryFill(IF SupportsGlobalOffsets
                 THEN Mems[c.mem].mem_ptr + c.offset
                 ELSE Mems[c.mem].mem_ptr, c.size))]

\* Level0Queue::syncUseMemHostPtr with Offset and Size, for the buffer Mem:
\* UseMemHostPtrsToSync.emplace(Key, Size), which leaves an entry that is
\* already there for the key as it is
SyncUseMemHostPtrOf(Mem, t, c) ==
  LET Key == << Mem.mem_host_ptr + c.offset, Mem.mem_ptr + c.offset >>
  IN  IF ~Mem.use_host_ptr \/ Mem.mem_host_ptr = Mem.mem_ptr THEN t
      ELSE IF \E e \in t.sync : e.key = Key THEN t
      ELSE [t EXCEPT !.sync = @ \cup { [ key |-> Key, size |-> c.size ] }]

\* Level0Queue::syncUseMemHostPtr for the buffer of a command
SyncUseMemHostPtr(t, c) == SyncUseMemHostPtrOf(Mems[c.mem], t, c)

\* Level0Queue::syncUseMemHostPtr with Origin and Region, for the buffer Mem
\* (the region as the units from c.offset): the copy is appended at once
SyncUseMemHostPtrRegion(Mem, t, c) ==
  IF ~Mem.use_host_ptr \/ Mem.mem_ptr = Mem.mem_host_ptr THEN t
  ELSE [t EXCEPT !.list = Append(@,
          [ op |-> "MemoryCopyRegion", dst |-> Mem.mem_host_ptr + c.offset,
            src |-> Mem.mem_ptr + c.offset, size |-> c.size ])]

\* Level0Queue::appendEventToList for a read, write, copy or fill command
AppendTransfer(t, c) ==
  CASE c.type = "READ_BUFFER"  -> ReadBuffer(t, c)
    [] c.type = "WRITE_BUFFER" -> SyncUseMemHostPtr(WriteBuffer(t, c), c)
    [] c.type = "COPY_BUFFER"  -> SyncUseMemHostPtr(CopyBuffer(t, c), c)
    [] c.type = "FILL_BUFFER"  -> SyncUseMemHostPtr(MemFill(t, c), c)

\* the loop of execCommandBatch over the commands of the batch
RECURSIVE AppendTransfers(_, _)
AppendTransfers(t, cs) ==
  IF cs = <<>> THEN t
  ELSE AppendTransfers(AppendTransfer(t, Head(cs)), Tail(cs))

\* the order of the keys of UseMemHostPtrsToSync, a std::map of pairs
KeyBefore(k1, k2) == k1[1] < k2[1] \/ (k1[1] = k2[1] /\ k1[2] < k2[2])

\* Level0Queue::syncMemHostPtrs: one copy to the host per entry, then clear()
RECURSIVE SyncHostCopies(_)
SyncHostCopies(t) ==
  IF t.sync = {} THEN t
  ELSE LET e == CHOOSE x \in t.sync :
                  \A y \in t.sync \ {x} : KeyBefore(x.key, y.key)
       IN  SyncHostCopies(
             [t EXCEPT !.sync = @ \ {e},
                       !.list = Append(@, MemoryCopy(e.key[1], e.key[2], e.size))])

\* the operations of the list submitted for one command by execCommand
ExecCommandList(c) == SyncHostCopies(AppendTransfer(EmptyList, c)).list

\* the operations of the list submitted for a batch by execCommandBatch
ExecCommandBatchList(cs) == SyncHostCopies(AppendTransfers(EmptyList, cs)).list

\* what one operation of a list does to the memory
RunOp(o, m) ==
  [ a \in Addresses |->
      IF a \notin Range(o.dst, o.size) THEN m[a]
      ELSE IF o.op = "MemoryFill" THEN Pattern
      ELSE m[o.src + (a - o.dst)] ]

\* the device executes a submitted list: every operation waits for the one
\* appended before it
RECURSIVE RunList(_, _)
RunList(ops, m) ==
  IF ops = <<>> THEN m ELSE RunList(Tail(ops), RunOp(Head(ops), m))

\* no data transfer is compared
NoTransfers ==
  /\ SupportsGlobalOffsets = TRUE
  /\ transfers = <<>>
  /\ memSingle = InitialMemory
  /\ doneSingle = 0
  /\ memBatch = InitialMemory
  /\ doneBatch = FALSE

\* execCommand with the next command, up to the return of the synchronize
ExecCommandTransfer ==
  /\ doneSingle < Len(transfers)
  /\ memSingle' = RunList(ExecCommandList(transfers[doneSingle + 1]), memSingle)
  /\ doneSingle' = doneSingle + 1
  /\ UNCHANGED <<SupportsGlobalOffsets, transfers, memBatch, doneBatch>>
  /\ UNCHANGED <<coreVars, listVars, poolVars, apiVars, ZeCall, pureVars>>

\* execCommandBatch with all the commands, up to the return of the synchronize
ExecCommandBatchTransfers ==
  /\ ~doneBatch
  /\ transfers # <<>>
  /\ memBatch' = RunList(ExecCommandBatchList(transfers), memBatch)
  /\ doneBatch' = TRUE
  /\ UNCHANGED <<SupportsGlobalOffsets, transfers, memSingle, doneSingle>>
  /\ UNCHANGED <<coreVars, listVars, poolVars, apiVars, ZeCall, pureVars>>

(* ---------------- pocl_setup_kernel_arg_array_with_locals ---------------- *)

\* the alignment of a local buffer
MAX_EXTENDED_ALIGNMENT == 128

\* the sizes of local buffers, the sizes of the local memory and the
\* addresses of the local memory (allocated aligned) the setup is checked with
LocalSizes == {0, 1, 128, 200}
LocalMemSizes == {200, 384}
LocalMemPtrs == {1024, 1152}

\* the sequences of at most n local buffer sizes
SizeSeqs(n) == UNION { [1..m -> LocalSizes] : m \in 0..n }

\* the kernels and local memories of a setup with host-allocated locals
\* (device_alloca_locals is false): kernel_args are the sizes of the
\* arguments that are local (ARG_IS_LOCAL), local_sizes those of the
\* automatic local buffers; NDEBUG tells whether assert is compiled out
KernelRuns ==
  [ kernel_args : SizeSeqs(1), local_sizes : SizeSeqs(MaxLocals),
    local_mem : LocalMemPtrs, local_mem_size : LocalMemSizes,
    NDEBUG : BOOLEAN ]

\* an align_ptr that moves an aligned pointer on as well
align_ptr_always(p) ==
  (p - (p % MAX_EXTENDED_ALIGNMENT)) + MAX_EXTENDED_ALIGNMENT

\* align_ptr: r & (MAX_EXTENDED_ALIGNMENT - 1) is r % MAX_EXTENDED_ALIGNMENT
\* and r & ~(MAX_EXTENDED_ALIGNMENT - 1) is r less that remainder
align_ptr(p) ==
  IF p % MAX_EXTENDED_ALIGNMENT # 0
  THEN (p - (p % MAX_EXTENDED_ALIGNMENT)) + MAX_EXTENDED_ALIGNMENT
  ELSE p

\* the first loop over the arguments that are local: where start is after
\* it, and whether every assert held
RECURSIVE LocalArgs(_, _, _)
LocalArgs(run, sizes, start) ==
  IF sizes = <<>> THEN [ start |-> start, asserts |-> TRUE ]
  ELSE LET next == align_ptr(start + Head(sizes))
           rest == LocalArgs(run, Tail(sizes), next)
       IN  [ start |-> rest.start,
             asserts |-> rest.asserts
                           /\ next - run.local_mem <= run.local_mem_size ]

\* the loop over the automatic local buffers
RECURSIVE AutoLocals(_, _, _)
AutoLocals(run, sizes, start) ==
  IF sizes = <<>> THEN "CL_SUCCESS"
  ELSE IF (start - run.local_mem) + Head(sizes) > run.local_mem_size
       THEN "CL_FAILED"
       ELSE AutoLocals(run, Tail(sizes), align_ptr(start + Head(sizes)))

\* pocl_setup_kernel_arg_array_with_locals: its result, or "abort" where an
\* assert that is compiled in fails
pocl_setup_kernel_arg_array_with_locals(run) ==
  LET args == LocalArgs(run, run.kernel_args, run.local_mem)
  IN  IF ~run.NDEBUG /\ ~args.asserts THEN "abort"
      ELSE AutoLocals(run, run.local_sizes, args.start)

\* no argument setup is looked at
\* the buffers syncUseMemHostPtr is called with: those of the data
\* transfers, H (CL_MEM_USE_HOST_PTR, and the allocator made its host memory
\* the device allocation) and P (host memory it does not use, by chance at
\* the address of its device allocation)
SyncMems ==
  [ m \in DOMAIN Mems \cup {"H", "P"} |->
      IF m \in DOMAIN Mems THEN Mems[m]
      ELSE [ use_host_ptr |-> (m = "H"), mem_ptr |-> 50, mem_host_ptr |-> 50 ] ]

\* the calls of syncUseMemHostPtr: the buffer, the range written, and which
\* of the two overloads
SyncCalls ==
  { c \in [ mem : DOMAIN SyncMems, offset : Units, size : 1..Cardinality(Units),
            rect : BOOLEAN ] : c.offset + c.size <= Cardinality(Units) }

\* the call that is next: one of the two overloads of syncUseMemHostPtr
SyncUseMemHostPtrCall ==
  /\ syncDone < Len(syncCalls)
  /\ LET c == syncCalls[syncDone + 1]
     IN  hostList' = IF c.rect
                     THEN SyncUseMemHostPtrRegion(SyncMems[c.mem], hostList, c)
                     ELSE SyncUseMemHostPtrOf(SyncMems[c.mem], hostList, c)
  /\ syncDone' = syncDone + 1
  /\ UNCHANGED <<kernelRun, setupResult, syncCalls, FreeCall, FillLaunch, coreVars,
                 listVars, poolVars, transferVars, apiVars, ZeCall>>

\* the syncMemHostPtrs that follows the last command of the list
SyncMemHostPtrsCall ==
  /\ syncDone = Len(syncCalls)
  /\ hostList' = SyncHostCopies(hostList)
  /\ syncDone' = syncDone + 1
  /\ UNCHANGED <<kernelRun, setupResult, syncCalls, FreeCall, FillLaunch, coreVars,
                 listVars, poolVars, transferVars, apiVars, ZeCall>>

\* freeCmdBuf has not been called
NoFreeCall == [ pc |-> "idle", data |-> 0 ]

\* a 64-bit size_t as three limbs of 16 bits, the lowest first
Limb == 2 ^ 16

\* Size / PatternSize of size_t values, for a PatternSize below 2^15
DivSizeT(x, d) ==
  LET r3 == x[3] % d
      r2 == (r3 * Limb + x[2]) % d
  IN  << (r2 * Limb + x[1]) \div d, (r3 * Limb + x[2]) \div d, x[3] \div d >>

\* the initialization of a uint32_t with a size_t: the low 32 bits
Uint32(x) == << x[1], x[2], 0 >>

\* TotalWGsX /= 2 of a uint32_t
HalfUint32(x) == << (x[1] \div 2) + (x[2] % 2) * (Limb \div 2), x[2] \div 2, 0 >>

\* the loop of memfillImpl: halve the group count and double the group size
\* while the count is even and above one and the size is not above MaxWG
\* (the size doubles from at most MaxWG, so the uint32_t never wraps)
RECURSIVE MemfillGroups(_, _, _)
MemfillGroups(TotalWGsX, WGSizeX, MaxWG) ==
  IF (TotalWGsX[2] > 0 \/ TotalWGsX[1] > 1) /\ TotalWGsX[1] % 2 = 0
     /\ WGSizeX <= MaxWG
  THEN MemfillGroups(HalfUint32(TotalWGsX), WGSizeX * 2, MaxWG)
  ELSE [ TotalWGsX |-> TotalWGsX, WGSizeX |-> WGSizeX ]

\* Level0Queue::memfillImpl: the group count of the launch and the group
\* size set for the kernel
MemfillImpl(Size, PatternSize, MaxWGSize) ==
  MemfillGroups(Uint32(DivSizeT(Size, PatternSize)), 1, MaxWGSize \div 2)

\* the sizes of the fills: below and above 2^16 and 2^32 bytes
FillSizes ==
  { << a, b, c >> : a \in {0, 1, 2, 6, 8, 96, 128, 1024, 32768, 65535},
                    b \in {0, 1, 2, 65535}, c \in {0, 1, 2} } \ { << 0, 0, 0 >> }

\* the pattern sizes of clEnqueueFillBuffer
PatternSizes == {1, 2, 4, 8, 16, 32, 64, 128}

\* max_work_group_size of the device
MaxWGSizes == {1, 2, 128, 256, 512, 1024}

\* memfillImpl has not been called
NoFillLaunch ==
  [ pc |-> "idle", Size |-> << 1, 0, 0 >>, PatternSize |-> 1, MaxWGSize |-> 1,
    TotalWGsX |-> << 0, 0, 0 >>, WGSizeX |-> 0 ]

\* memfillImpl up to zeCommandListAppendLaunchKernel
MemfillImplCall ==
  /\ FillLaunch.pc = "called"
  /\ \E g \in { MemfillImpl(FillLaunch.Size, FillLaunch.PatternSize,
                              FillLaunch.MaxWGSize) } :
       FillLaunch' = [FillLaunch EXCEPT !.pc = "launched",
                                        !.TotalWGsX = g.TotalWGsX,
                                        !.WGSizeX = g.WGSizeX]
  /\ UNCHANGED <<kernelRun, setupResult, syncCalls, syncDone, hostList,
                 FreeCall, coreVars, listVars, poolVars, transferVars, apiVars,
                 ZeCall>>

NoSyncCalls ==
  /\ FreeCall = NoFreeCall
  /\ FillLaunch = NoFillLaunch
  /\ syncCalls = <<>>
  /\ syncDone = 1
  /\ hostList = EmptyList

\* no argument setup is checked
NoKernelRun ==
  /\ kernelRun = [ kernel_args |-> <<>>, local_sizes |-> <<>>,
                   local_mem |-> 1024, local_mem_size |-> 384, NDEBUG |-> TRUE ]
  /\ setupResult = "none"

NoSetup == NoKernelRun /\ NoSyncCalls

\* a driver thread sets up the arguments of the kernel it is about to run
SetupKernelArgs ==
  /\ setupResult = "none"
  /\ setupResult' = pocl_setup_kernel_arg_array_with_locals(kernelRun)
  /\ UNCHANGED <<kernelRun, syncCalls, syncDone, hostList, FreeCall, FillLaunch, coreVars,
                 listVars, poolVars, transferVars, apiVars, ZeCall>>

(* ---------------- Level0QueueGroup::init, Level0Queue::Level0Queue ------- *)

\* the workers init() creates, each with its thread started
WorkerExists(props, w) == w[2] <= InitCount(props, w[1])

PcAfterInit(props) ==
  [ w \in Workers |-> IF WorkerExists(props, w) THEN "get" ELSE "none" ]

HandlesAfterInit(props) ==
  [ w \in Workers |-> IF WorkerExists(props, w) THEN "live" ELSE "none" ]

NoWorkers == [ w \in Workers |-> "none" ]

\* no timeout: the worker has called no synchronize yet
NoTimeout == "none"

\* std::numeric_limits<uint64_t>::max()
UINT64_MAX == "std::numeric_limits<uint64_t>::max()"

\* the threads of the application that call createCmdBuf and freeCmdBuf
Callers == {"a", "b"}

\* nullptr as a ze_command_list_handle_t
NullList == 0

\* a thread that is in neither call, and has made none
IdleCall ==
  [ pc |-> "idle", SaveCmdListH |-> NullList, Res |-> "ZE_RESULT_SUCCESS",
    ret |-> NoCmdBufData ]

\* the CreateQueue as its constructor leaves it, with its own native list,
\* and no call of createCmdBuf yet
NoApiCalls ==
  /\ CreateQ = [ CmdListH |-> 1, avail |-> <<>>, toReset |-> <<>>,
                 cur |-> NullEvent, prev |-> NullEvent, resident |-> {} ]
  /\ NativeLists = << [ ops |-> <<>>, destroyed |-> FALSE ] >>
  /\ ApiCall = [ t \in Callers |-> IdleCall ]
  /\ CmdBufferData = <<>>

\* the state of the queues, workers and events that no setup or push touches
IdleRest ==
  /\ NoApiCalls
  /\ ZeCall = [ w \in Workers |->
                [ Res |-> "ZE_RESULT_SUCCESS", timeout |-> NoTimeout ] ]
  /\ ThreadExitRequested = [ g \in Groups |-> FALSE ]
  /\ WorkQueue = [ g \in Groups |-> <<>> ]
  /\ BatchWorkQueue = [ g \in Groups |-> <<>> ]
  /\ Command = [ w \in Workers |-> NoCmd ]
  /\ WorkBatch = [ w \in Workers |-> <<>> ]
  /\ ShouldExit = [ w \in Workers |-> FALSE ]
  /\ idx = [ w \in Workers |-> 0 ]
  /\ uninitPc = [ g \in Groups |-> "idle" ]
  /\ CmdBufData = NoCmdBufData
  /\ CmdBufObjs = <<>>
  /\ CBData = [ w \in Workers |-> NoCmdBufData ]
  /\ replayed = [ c \in Cmds |-> NoReplay ]
  /\ status = [ c \in Cmds |-> "none" ]
  /\ type = [ c \in Cmds |-> "none" ]
  /\ native = [ c \in Cmds |-> "none" ]
  /\ nextId = 1
  /\ placed = [ c \in Cmds |-> "none" ]
  /\ fifo = [ c \in Cmds |-> "none" ]
  /\ path = [ c \in Cmds |-> "none" ]
  /\ fetches = [ c \in Cmds |-> 0 ]
  /\ EventPools = [ i \in 1..InitialPools |-> NewPool(i) ]
  /\ AvailableDeviceEvents = [ w \in Workers |-> <<>> ]
  /\ DeviceEventsToReset = [ w \in Workers |-> <<>> ]
  /\ CurrentEventH = [ w \in Workers |-> NullEvent ]
  /\ PreviousEventH = [ w \in Workers |-> NullEvent ]
  /\ listState = [ w \in Workers |-> "open" ]
  /\ CmdListOps = [ w \in Workers |-> <<>> ]
  /\ UseMemHostPtrsToSync = [ w \in Workers |-> {} ]
  /\ MemPtrsToMakeResident = [ w \in Workers |-> {} ]
  /\ shape = [ c \in Cmds |-> PlainShape ]
  /\ madeResident = [ c \in Cmds |-> {} ]
  /\ issued = <<>>

\* a device object before setupQueueGroupProperties, for any hardware report
InitDevice ==
  /\ QGroupProps \in HardwareReports
  /\ PrefersZeQueues = TRUE
  /\ SupportsCmdQBatching \in BOOLEAN
  /\ devState = "new"
  /\ Available = [ g \in Groups |-> FALSE ]
  /\ NumQueues = [ g \in Groups |-> 0 ]
  /\ CreateQueue = [ g \in Groups |-> FALSE ]
  /\ pc = NoWorkers
  /\ handles = NoWorkers
  /\ IdleRest
  /\ NoTransfers
  /\ NoSetup

SetupQueueGroupProperties ==
  /\ devState = "new"
  /\ \E Res \in {"ZE_RESULT_SUCCESS", "ZE_RESULT_ERROR"} :
       IF Res # "ZE_RESULT_SUCCESS" \/ ~SetupSucceeds(QGroupProps)
       THEN /\ devState' = "failed"
            /\ UNCHANGED <<Available, NumQueues, CreateQueue, pc, handles>>
       ELSE /\ devState' = "ready"
            /\ Available' = [ g \in Groups |-> GroupIsInitialized(QGroupProps, g) ]
            /\ NumQueues' = [ g \in Groups |-> InitCount(QGroupProps, g) ]
            /\ CreateQueue' = [ g \in Groups |-> GroupIsInitialized(QGroupProps, g) ]
            /\ pc' = PcAfterInit(QGroupProps)
            /\ handles' = HandlesAfterInit(QGroupProps)
  /\ UNCHANGED <<poolVars, listVars, shape, madeResident,
                 QGroupProps, PrefersZeQueues, SupportsCmdQBatching,
                 ThreadExitRequested, queueVars, Command, WorkBatch, ShouldExit,
                 idx, uninitPc, cmdBufVars, eventVars, nextId, histVars>>
  /\ UNCHANGED <<sideVars, ZeCall>>

\* a device with one universal queue family, after a successful setup
UniversalOnly(n) == << [compute |-> TRUE, copy |-> TRUE, numQueues |-> n] >>

InitReady ==
  /\ \E n \in QueueCounts : QGroupProps = UniversalOnly(n)
  /\ PrefersZeQueues \in BOOLEAN
  /\ SupportsCmdQBatching \in BOOLEAN
  /\ devState = "ready"
  /\ Available = [ g \in Groups |-> GroupIsInitialized(QGroupProps, g) ]
  /\ NumQueues = [ g \in Groups |-> InitCount(QGroupProps, g) ]
  /\ CreateQueue = [ g \in Groups |-> GroupIsInitialized(QGroupProps, g) ]
  /\ pc = PcAfterInit(QGroupProps)
  /\ handles = HandlesAfterInit(QGroupProps)
  /\ IdleRest

Init == InitReady /\ NoTransfers /\ NoSetup

(* ---------------- the enqueue side: pushCommand, pushCommandBatch -------- *)

GroupWorkers(g) == { w \in Workers : w[1] = g }

\* Cond.notify_one(): wakes one of the workers blocked in Cond.wait, if any
NotifyOne(g) ==
  LET waiting == { w \in GroupWorkers(g) : pc[w] = "wait" }
  IN  IF waiting = {} THEN pc' = pc
      ELSE \E w \in waiting : pc' = [pc EXCEPT ![w] = "get"]

\* uninit() without its Cond.notify_all()
NotifyNobody(g) == pc' = pc

\* Cond.notify_all(): wakes every worker blocked in Cond.wait
NotifyAll(g) ==
  pc' = [ w \in Workers |->
            IF w[1] = g /\ pc[w] = "wait" THEN "get" ELSE pc[w] ]

\* pushWork that puts the command at the front of the FIFO
PushWorkFront(g, c) ==
  /\ WorkQueue' = [WorkQueue EXCEPT ![g] = << c >> \o @]
  /\ NotifyOne(g)

\* Level0QueueGroup::pushWork
PushWork(g, c) ==
  /\ WorkQueue' = [WorkQueue EXCEPT ![g] = Append(@, c)]
  /\ NotifyOne(g)

\* pushCommand that takes only the kernel launch for a compute command
PushTargetKernelOnly(kind) ==
  IF kind = "NDRANGE_KERNEL"
  THEN IF Available["Compute"] THEN "Compute" ELSE "Universal"
  ELSE IF Available["Copy"] THEN "Copy" ELSE "Universal"

\* pushCommand that prefers the compute group for every command
PushTargetComputeFirst(kind) ==
  IF Available["Compute"] THEN "Compute"
  ELSE IF Available["Copy"] THEN "Copy" ELSE "Universal"

\* the queue group Level0Device::pushCommand hands a command of this type to
PushTarget(kind) ==
  IF kind \in ComputeKinds
  THEN IF Available["Compute"] THEN "Compute" ELSE "Universal"
  ELSE IF Available["Copy"] THEN "Copy" ELSE "Universal"

\* Level0Device::pushCommand, called by the enqueue side with a new command
\* whose event it has marked submitted
PushCommand(kind, sh) ==
  /\ devState = "ready"
  /\ nextId <= MaxCmds
  /\ kind \notin {"NDRANGE_KERNEL", "WRITE_BUFFER_RECT"} => sh = PlainShape
  /\ shape' = [shape EXCEPT ![nextId] = sh]
  /\ PushWork(PushTarget(kind), nextId)
  /\ status' = [status EXCEPT ![nextId] = "submitted"]
  /\ type' = [type EXCEPT ![nextId] = kind]
  /\ placed' = [placed EXCEPT ![nextId] = PushTarget(kind)]
  /\ fifo' = [fifo EXCEPT ![nextId] = "single"]
  /\ nextId' = nextId + 1
  /\ UNCHANGED <<poolVars, listVars, madeResident,
                 devVars, groupVars, BatchWorkQueue, Command, WorkBatch,
                 ShouldExit, idx, handles, uninitPc, cmdBufVars, native, path,
                 fetches>>
  /\ UNCHANGED <<sideVars, ZeCall>>

\* the batches the enqueue side builds: one command-buffer replay, or some
\* kernel launches
BatchKinds == {"NDRANGE_KERNEL", "COMMAND_BUFFER_KHR"}

BatchEvents(k) == [ i \in 1..k |-> nextId + i - 1 ]

\* pushCommandBatch of a queue group without its Cond.notify_one()
GroupPushCommandBatchNoNotify(g, b) ==
  /\ BatchWorkQueue' = [BatchWorkQueue EXCEPT ![g] = Append(@, b)]
  /\ pc' = pc

\* Level0QueueGroup::pushCommandBatch
GroupPushCommandBatch(g, b) ==
  /\ BatchWorkQueue' = [BatchWorkQueue EXCEPT ![g] = Append(@, b)]
  /\ NotifyOne(g)

\* Level0Device::pushCommandBatch and Level0QueueGroup::pushCommandBatch, called
\* with a batch of k new events, still queued; POCL_ABORT_UNIMPLEMENTED ends
\* the process
PushCommandBatch(kind, k, sh) ==
  /\ devState = "ready"
  /\ k >= 1
  /\ nextId + k - 1 <= MaxCmds
  /\ kind = "COMMAND_BUFFER_KHR" => (k = 1 /\ sh = PlainShape)
  /\ IF SupportsCmdQBatching
     THEN /\ GroupPushCommandBatch("Universal", BatchEvents(k))
          /\ status' = [ c \in Cmds |->
                IF c \in nextId..(nextId + k - 1) THEN "queued" ELSE status[c] ]
          /\ type' = [ c \in Cmds |->
                IF c \in nextId..(nextId + k - 1) THEN kind ELSE type[c] ]
          /\ placed' = [ c \in Cmds |->
                IF c \in nextId..(nextId + k - 1) THEN "Universal" ELSE placed[c] ]
          /\ fifo' = [ c \in Cmds |->
                IF c \in nextId..(nextId + k - 1) THEN "batch" ELSE fifo[c] ]
          /\ shape' = [ c \in Cmds |->
                IF c \in nextId..(nextId + k - 1) THEN sh ELSE shape[c] ]
          /\ nextId' = nextId + k
          /\ UNCHANGED devState
     ELSE /\ devState' = "aborted"
          /\ UNCHANGED <<BatchWorkQueue, pc, status, type, placed, fifo, nextId,
                         shape>>
  /\ UNCHANGED <<poolVars, listVars, madeResident,
                 QGroupProps, PrefersZeQueues, SupportsCmdQBatching, groupVars,
                 WorkQueue, Command, WorkBatch, ShouldExit, idx, handles,
                 uninitPc, cmdBufVars, native, path, fetches>>
  /\ UNCHANGED <<sideVars, ZeCall>>

(* ---------------- Level0QueueGroup::getWorkOrWait ---------------- *)

\* where runThread goes with the single command it fetched
SinglePath(c) ==
  IF PrefersZeQueues \/ type[c] = "NDRANGE_KERNEL"
  THEN IF type[c] = "COMMAND_BUFFER_KHR" THEN "cb_check" ELSE "exec"
  ELSE "host_running"

\* where runThread goes with the batch it fetched
BatchPath(b) ==
  IF type[b[1]] = "COMMAND_BUFFER_KHR" THEN "cb_submitted" ELSE "exec"

\* getWorkOrWait that takes the newest entry and pops the oldest
Back(q) == q[Len(q)]

\* the single command getWorkOrWait takes from the FIFO
Front(q) == Head(q)

\* getWorkOrWait without its pop()
PopNothing(q) == q

\* the FIFO after getWorkOrWait has taken a command or a batch
Pop(q) == Tail(q)

\* getWorkOrWait that looks at the batch FIFO first
GetWorkOrWaitBatchFirst(w) ==
  LET g == w[1]
      exit == ThreadExitRequested[g]
  IN
  /\ pc[w] = "get"
  /\ IF BatchWorkQueue[g] # <<>>
     THEN /\ WorkBatch' = [WorkBatch EXCEPT ![w] = Front(BatchWorkQueue[g])]
          /\ BatchWorkQueue' = [BatchWorkQueue EXCEPT ![g] = Pop(@)]
          /\ fetches' = [ c \in Cmds |->
                IF \E i \in 1..Len(Front(BatchWorkQueue[g])) :
                      Front(BatchWorkQueue[g])[i] = c
                THEN fetches[c] + 1 ELSE fetches[c] ]
          /\ pc' = [pc EXCEPT ![w] = BatchPath(Front(BatchWorkQueue[g]))]
          /\ path' = [ c \in Cmds |->
                IF \E i \in 1..Len(Front(BatchWorkQueue[g])) :
                      Front(BatchWorkQueue[g])[i] = c
                THEN BatchPath(Front(BatchWorkQueue[g])) ELSE path[c] ]
          /\ UNCHANGED <<WorkQueue, Command>>
     ELSE IF WorkQueue[g] # <<>>
     THEN /\ Command' = [Command EXCEPT ![w] = Front(WorkQueue[g])]
          /\ WorkQueue' = [WorkQueue EXCEPT ![g] = Pop(@)]
          /\ fetches' = [fetches EXCEPT ![Front(WorkQueue[g])] = @ + 1]
          /\ pc' = [pc EXCEPT ![w] = SinglePath(Front(WorkQueue[g]))]
          /\ path' = [path EXCEPT ![Front(WorkQueue[g])] =
                         SinglePath(Front(WorkQueue[g]))]
          /\ UNCHANGED <<BatchWorkQueue, WorkBatch>>
     ELSE /\ pc' = [pc EXCEPT ![w] = IF exit THEN "exited" ELSE "wait"]
          /\ UNCHANGED <<WorkQueue, BatchWorkQueue, Command, WorkBatch, path,
                         fetches>>
  /\ ShouldExit' = [ShouldExit EXCEPT ![w] = exit]
  /\ UNCHANGED <<poolVars, listVars, shape, madeResident,
                 devVars, groupVars, idx, handles, uninitPc, cmdBufVars,
                 eventVars, nextId, placed, fifo>>
  /\ UNCHANGED <<sideVars, ZeCall>>

\* one pass of getWorkOrWait's loop, under the group's Mutex
GetWorkOrWait(w) ==
  LET g == w[1]
      exit == ThreadExitRequested[g]
  IN
  /\ pc[w] = "get"
  /\ IF WorkQueue[g] # <<>>
     THEN /\ Command' = [Command EXCEPT ![w] = Front(WorkQueue[g])]
          /\ WorkQueue' = [WorkQueue EXCEPT ![g] = Pop(@)]
          /\ fetches' = [fetches EXCEPT ![Front(WorkQueue[g])] = @ + 1]
          /\ pc' = [pc EXCEPT ![w] = SinglePath(Front(WorkQueue[g]))]
          /\ path' = [path EXCEPT ![Front(WorkQueue[g])] =
                         SinglePath(Front(WorkQueue[g]))]
          /\ UNCHANGED <<BatchWorkQueue, WorkBatch>>
     ELSE IF BatchWorkQueue[g] # <<>>
     THEN /\ WorkBatch' = [WorkBatch EXCEPT ![w] = Front(BatchWorkQueue[g])]
          /\ BatchWorkQueue' = [BatchWorkQueue EXCEPT ![g] = Pop(@)]
          /\ fetches' = [ c \in Cmds |->
                IF \E i \in 1..Len(Front(BatchWorkQueue[g])) :
                      Front(BatchWorkQueue[g])[i] = c
                THEN fetches[c] + 1 ELSE fetches[c] ]
          /\ pc' = [pc EXCEPT ![w] = BatchPath(Front(BatchWorkQueue[g]))]
          /\ path' = [ c \in Cmds |->
                IF \E i \in 1..Len(Front(BatchWorkQueue[g])) :
                      Front(BatchWorkQueue[g])[i] = c
                THEN BatchPath(Front(BatchWorkQueue[g])) ELSE path[c] ]
          /\ UNCHANGED <<WorkQueue, Command>>
     ELSE /\ pc' = [pc EXCEPT ![w] = IF exit THEN "exited" ELSE "wait"]
          /\ UNCHANGED <<WorkQueue, BatchWorkQueue, Command, WorkBatch, path,
                         fetches>>
  /\ ShouldExit' = [ShouldExit EXCEPT ![w] = exit]
  /\ UNCHANGED <<poolVars, listVars, shape, madeResident,
                 devVars, groupVars, idx, handles, uninitPc, cmdBufVars,
                 eventVars, nextId, placed, fifo>>
  /\ UNCHANGED <<sideVars, ZeCall>>

\* Cond.wait may return without a notification
SpuriousWakeup(w) ==
  /\ devState # "aborted"
  /\ pc[w] = "wait"
  /\ pc' = [pc EXCEPT ![w] = "get"]
  /\ UNCHANGED <<poolVars, listVars, shape, madeResident,
                 devVars, groupVars, queueVars, Command, WorkBatch, ShouldExit,
                 idx, handles, uninitPc, cmdBufVars, eventVars, nextId, histVars>>
  /\ UNCHANGED <<sideVars, ZeCall>>

(* ---------------- building a native list ---------------- *)

\* what worker w builds its list with: the pools of the device and its own
\* handles, list and bookkeeping
QueueState(w) ==
  [ pools |-> EventPools, issued |-> issued,
    avail |-> AvailableDeviceEvents[w], toReset |-> DeviceEventsToReset[w],
    cur |-> CurrentEventH[w], prev |-> PreviousEventH[w],
    list |-> CmdListOps[w],
    hostSync |-> UseMemHostPtrsToSync[w],
    resident |-> MemPtrsToMakeResident[w],
    QueueOrdinal |-> FirstOrd(QGroupProps, w[1]) ]

\* Op at the value of v, with v evaluated once only
Then(v, Op(_)) == CHOOSE r \in { Op(x) : x \in {v} } : TRUE

StoreQueueState(w, q) ==
  /\ EventPools' = q.pools
  /\ issued' = q.issued
  /\ AvailableDeviceEvents' = [AvailableDeviceEvents EXCEPT ![w] = q.avail]
  /\ DeviceEventsToReset' = [DeviceEventsToReset EXCEPT ![w] = q.toReset]
  /\ CurrentEventH' = [CurrentEventH EXCEPT ![w] = q.cur]
  /\ PreviousEventH' = [PreviousEventH EXCEPT ![w] = q.prev]
  /\ CmdListOps' = [CmdListOps EXCEPT ![w] = q.list]
  /\ UseMemHostPtrsToSync' = [UseMemHostPtrsToSync EXCEPT ![w] = q.hostSync]
  /\ MemPtrsToMakeResident' = [MemPtrsToMakeResident EXCEPT ![w] = q.resident]

\* an allocNextFreeEvent that takes the front of the available handles and
\* leaves it there
AllocNextNoPop(q) ==
  IF q.avail = <<>>
  THEN LET new == GetNewEvent(q.pools)
       IN  [q EXCEPT !.prev = q.cur, !.cur = new.event, !.pools = new.pools,
                     !.issued = Append(@, new.event),
                     !.toReset = Append(@, new.event)]
  ELSE [q EXCEPT !.prev = q.cur, !.cur = Head(q.avail),
                 !.toReset = Append(@, Head(q.avail))]

\* Level0Queue::allocNextFreeEvent
AllocNext(q) ==
  IF q.avail = <<>>
  THEN LET new == GetNewEvent(q.pools)
       IN  [q EXCEPT !.prev = q.cur, !.cur = new.event, !.pools = new.pools,
                     !.issued = Append(@, new.event),
                     !.toReset = Append(@, new.event)]
  ELSE [q EXCEPT !.prev = q.cur, !.cur = Head(q.avail), !.avail = Tail(@),
                 !.toReset = Append(@, Head(q.avail))]

\* an operation of a native list: what it is, the command it was appended
\* for, the handle it signals (or resets) and the handle it waits on
ListOp(name, c, h, wait) ==
  [ op |-> name, event |-> c, handle |-> h, wait |-> wait ]

\* allocNextFreeEvent and the zeCommandListAppend... call that follows it
AppendOp(q, name, c) ==
  Then(AllocNext(q),
       LAMBDA a : [a EXCEPT !.list = Append(@, ListOp(name, c, a.cur, a.prev))])

\* Level0Queue::runNDRangeKernel, appending for event c (if any)
RunNDRangeKernel(q, sh, c) ==
  IF sh.TotalWGs = 0 THEN q
  ELSE AppendOp([q EXCEPT !.resident = @ \cup sh.AccessedPointers],
                "LaunchKernel", c)

\* Level0Queue::syncUseMemHostPtr with Origin and Region, after a write to
\* the buffers sh.migr_infos (USE_HOST_PTR, their device memory apart from
\* their host memory): zeCommandListAppendMemoryCopyRegion with no signal
\* event and no wait events, for each of them
RECURSIVE SyncUseMemHostPtrRect(_, _, _)
SyncUseMemHostPtrRect(q, bufs, c) ==
  IF bufs = {} THEN q
  ELSE LET b == CHOOSE x \in bufs : TRUE
       IN  SyncUseMemHostPtrRect(
             [q EXCEPT !.list = Append(@, ListOp("MemoryCopyRegion", c,
                                                 NullEvent, NullEvent))],
             bufs \ {b}, c)

\* Level0Queue::appendEventToList for a node of this type: a kernel launch
\* and the syncUseMemHostPtr of its buffers, the memory copy of a
\* rectangular write (rows without gaps) and the syncUseMemHostPtr of the
\* buffer it writes, or the memory copy of a read, write or copy command
AppendNode(q, kind, sh, c) ==
  IF kind = "NDRANGE_KERNEL"
  THEN [RunNDRangeKernel(q, sh, c) EXCEPT !.hostSync = @ \cup sh.migr_infos]
  ELSE IF kind = "WRITE_BUFFER_RECT"
  THEN Then(AppendOp(q, "MemoryCopy", c),
            LAMBDA a : SyncUseMemHostPtrRect(a, sh.migr_infos, c))
  ELSE AppendOp(q, "MemoryCopy", c)

\* Level0Queue::appendEventToList for the command of event c
AppendEventToList(q, c) == AppendNode(q, type[c], shape[c], c)

\* the loop of execCommandBatch over its events (one event for execCommand)
RECURSIVE AppendAll(_, _)
AppendAll(q, events) ==
  IF events = <<>> THEN q
  ELSE Then(AppendEventToList(q, Head(events)),
            LAMBDA next : AppendAll(next, Tail(events)))

\* Level0Queue::makeMemResident
MakeMemResident(q) == [q EXCEPT !.resident = {}]

\* Level0Queue::syncMemHostPtrs
RECURSIVE SyncMemHostPtrs(_)
SyncMemHostPtrs(q) ==
  IF q.hostSync = {} THEN q
  ELSE LET b == CHOOSE x \in q.hostSync : TRUE
       IN  Then(AppendOp([q EXCEPT !.hostSync = @ \ {b}], "MemoryCopy", NoCmd),
                LAMBDA next : SyncMemHostPtrs(next))

\* the zeCommandListAppendEventReset calls of closeCmdList
EventResets(hs) ==
  [ i \in 1..Len(hs) |-> ListOp("EventReset", NoCmd, hs[i], NullEvent) ]

\* a closeCmdList that appends the resets before the barrier
CloseOpsResetsFirst(q) ==
  EventResets(q.toReset) \o << ListOp("Barrier", NoCmd, NullEvent, q.cur) >>

\* the operations closeCmdList appends: the barrier and the resets
CloseOps(q) ==
  << ListOp("Barrier", NoCmd, NullEvent, q.cur) >> \o EventResets(q.toReset)

\* Level0Queue::closeCmdList of an ordinary list (EvtList == nullptr): the
\* handles to reset go to the worker's available handles
CloseList(q) ==
  [q EXCEPT !.list = @ \o CloseOps(q),
            !.avail = @ \o q.toReset,
            !.toReset = <<>>]

\* the LL_FOREACH of createCommandBuffer over CmdBuf->cmds
RECURSIVE AppendNodes(_, _)
AppendNodes(q, nodes) ==
  IF nodes = <<>> THEN q
  ELSE Then(AppendNode(q, Head(nodes).type, Head(nodes).shape, NoCmd),
            LAMBDA next : AppendNodes(next, Tail(nodes)))

\* createCommandBuffer: the commandQueueGroupOrdinal of cmdListDesc
CommandListOrdinal(q) == q.QueueOrdinal

\* Level0Queue::createCommandBuffer: the Level0CmdBufferData it returns and
\* the queue afterwards. The list is a new one; its handles (EvtList) and the
\* residency list go to the Level0CmdBufferData.
CreateCommandBuffer(q) ==
  Then(Then(AppendNodes([q EXCEPT !.list = <<>>], CmdBufCmds),
            LAMBDA appended : SyncMemHostPtrs(appended)),
       LAMBDA built :
         [ data |-> [ CmdListH |-> built.list \o CloseOps(built),
                      Events |-> built.toReset,
                      MemPtrsToMakeResident |-> built.resident,
                      Lock |-> <<>>,
                      QueueOrdinal |-> CommandListOrdinal(built) ],
           queue |-> [built EXCEPT !.list = q.list, !.toReset = <<>>,
                                   !.cur = NullEvent, !.prev = NullEvent,
                                   !.resident = {}] ])

\* a reset that leaves CurrentEventH and PreviousEventH as they are
ResetQueueKeepsHandles(q) ==
  [q EXCEPT !.list = <<>>, !.hostSync = {}, !.resident = {}]

\* Level0Queue::reset
ResetQueue(q) ==
  [q EXCEPT !.list = <<>>, !.cur = NullEvent, !.prev = NullEvent,
            !.hostSync = {}, !.resident = {}]

\* an operation is appended to the open list of worker w: allocNextFreeEvent
\* and the append call
AllocNextFreeEvent(w) ==
  /\ pc[w] # "none"
  /\ listState[w] = "open"
  /\ Len(DeviceEventsToReset[w]) < MaxAppends
  /\ \E q \in { AppendOp(QueueState(w), "MemoryCopy", NoCmd) } :
       StoreQueueState(w, q)
  /\ UNCHANGED <<coreVars, listState>>
  /\ UNCHANGED <<sideVars, ZeCall>>

\* worker w closes its list
CloseCmdList(w) ==
  /\ pc[w] # "none"
  /\ listState[w] = "open"
  /\ StoreQueueState(w, CloseList(QueueState(w)))
  /\ listState' = [listState EXCEPT ![w] = "closed"]
  /\ UNCHANGED coreVars
  /\ UNCHANGED <<sideVars, ZeCall>>

\* worker w resets its list after it has been executed
ResetList(w) ==
  /\ pc[w] # "none"
  /\ listState[w] = "closed"
  /\ StoreQueueState(w, ResetQueue(QueueState(w)))
  /\ listState' = [listState EXCEPT ![w] = "open"]
  /\ UNCHANGED coreVars
  /\ UNCHANGED <<sideVars, ZeCall>>

(* ---------------- createCmdBuf and freeCmdBuf on the CreateQueue --------- *)

\* everything of the device and its workers but devState
coreRest ==
  <<QGroupProps, PrefersZeQueues, SupportsCmdQBatching, groupVars, queueVars,
    workerVars, handles, uninitPc, cmdBufVars, eventVars, nextId, histVars,
    shape, madeResident>>

\* the handle sets of the workers
workerPools ==
  <<AvailableDeviceEvents, DeviceEventsToReset, CurrentEventH, PreviousEventH,
    listState>>

\* a list handle the native calls accept
Usable(h) == h # NullList /\ ~NativeLists[h].destroyed

\* what a caller of createCmdBuf builds with: the pools of the device and the
\* members of the CreateQueue, the list being the one CmdListH names
CreateQueueState ==
  [ pools |-> EventPools, issued |-> issued,
    avail |-> CreateQ.avail, toReset |-> CreateQ.toReset,
    cur |-> CreateQ.cur, prev |-> CreateQ.prev,
    list |-> NativeLists[CreateQ.CmdListH].ops,
    hostSync |-> {}, resident |-> CreateQ.resident,
    QueueOrdinal |-> FirstOrd(QGroupProps, "Universal") ]

StoreCreateQueue(q) ==
  /\ EventPools' = q.pools
  /\ issued' = q.issued
  /\ CreateQ' = [CreateQ EXCEPT !.avail = q.avail, !.toReset = q.toReset,
                                !.cur = q.cur, !.prev = q.prev,
                                !.resident = q.resident]
  /\ NativeLists' = [NativeLists EXCEPT ![CreateQ.CmdListH].ops = q.list]

\* the Level0CmdBufferData of createCommandBuffer: the list it closed, the
\* handles closeCmdList gave it and the residency list swapped into it
NewCmdBufferData(cq) ==
  [ CmdListH |-> cq.CmdListH, Events |-> cq.toReset,
    MemPtrsToMakeResident |-> cq.resident, live |-> TRUE, had |-> <<>> ]

\* a createCommandBuffer that hands out a Level0CmdBufferData although
\* zeCommandListCreate has failed
CreateCmdBufBeginCaches(t) ==
  /\ devState = "ready"
  /\ CreateQueue["Universal"]
  /\ ApiCall[t].pc = "idle"
  /\ Len(NativeLists) <= MaxCmdBufs
  /\ \E Res \in {"ZE_RESULT_SUCCESS", "ZE_RESULT_ERROR"} :
       IF Res # "ZE_RESULT_SUCCESS"
       THEN /\ CreateQ' = [CreateQ EXCEPT !.CmdListH = NullList]
            /\ CmdBufferData' = Append(CmdBufferData,
                  NewCmdBufferData([CreateQ EXCEPT !.CmdListH = NullList]))
            /\ ApiCall' = [ApiCall EXCEPT ![t] =
                  [IdleCall EXCEPT !.Res = Res,
                                   !.ret = Len(CmdBufferData) + 1]]
            /\ UNCHANGED NativeLists
       ELSE /\ NativeLists' =
                  Append(NativeLists, [ ops |-> <<>>, destroyed |-> FALSE ])
            /\ CreateQ' = [CreateQ EXCEPT !.CmdListH = Len(NativeLists) + 1]
            /\ ApiCall' = [ApiCall EXCEPT ![t] =
                  [ pc |-> "created", SaveCmdListH |-> CreateQ.CmdListH,
                    Res |-> Res, ret |-> NoCmdBufData ]]
            /\ UNCHANGED CmdBufferData
  /\ UNCHANGED <<coreVars, listVars, poolVars, transferVars, ZeCall, pureVars>>

\* createCommandBuffer up to the asserts: CmdListH is saved and set to
\* nullptr, and zeCommandListCreate gives a new list or fails; on a failure
\* LEVEL0_CHECK_RET returns nullptr at once
CreateCmdBufBegin(t) ==
  /\ devState = "ready"
  /\ CreateQueue["Universal"]
  /\ ApiCall[t].pc = "idle"
  /\ Len(NativeLists) <= MaxCmdBufs
  /\ \E Res \in {"ZE_RESULT_SUCCESS", "ZE_RESULT_ERROR"} :
       IF Res # "ZE_RESULT_SUCCESS"
       THEN /\ CreateQ' = [CreateQ EXCEPT !.CmdListH = NullList]
            /\ ApiCall' = [ApiCall EXCEPT ![t] = [IdleCall EXCEPT !.Res = Res]]
            /\ UNCHANGED <<NativeLists, CmdBufferData>>
       ELSE /\ NativeLists' =
                  Append(NativeLists, [ ops |-> <<>>, destroyed |-> FALSE ])
            /\ CreateQ' = [CreateQ EXCEPT !.CmdListH = Len(NativeLists) + 1]
            /\ ApiCall' = [ApiCall EXCEPT ![t] =
                  [ pc |-> "created", SaveCmdListH |-> CreateQ.CmdListH,
                    Res |-> Res, ret |-> NoCmdBufData ]]
            /\ UNCHANGED CmdBufferData
  /\ UNCHANGED <<coreVars, listVars, poolVars, transferVars, ZeCall, pureVars>>

\* createCommandBuffer: the LL_FOREACH over CmdBuf->cmds and syncMemHostPtrs,
\* on the members of the CreateQueue as they are now; an append to a list
\* that is no list fails, and LEVEL0_CHECK_ABORT ends the process
CreateCmdBufAppend(t) ==
  /\ devState = "ready"
  /\ ApiCall[t].pc = "created"
  /\ IF ~Usable(CreateQ.CmdListH)
     THEN /\ devState' = "aborted"
          /\ UNCHANGED <<apiVars, EventPools, issued>>
     ELSE /\ \E q \in { Then(AppendNodes(CreateQueueState, CmdBufCmds),
                              LAMBDA a : SyncMemHostPtrs(a)) } :
               StoreCreateQueue(q)
          /\ ApiCall' = [ApiCall EXCEPT ![t].pc = "appended"]
          /\ UNCHANGED <<devState, CmdBufferData>>
  /\ UNCHANGED <<coreRest, listVars, workerPools, transferVars, ZeCall, pureVars>>

\* createCommandBuffer from closeCmdList(&CmdBufEvtList) to its return: the
\* list is closed, CmdListH swapped back, and the new Level0CmdBufferData
\* takes the list, the handles and the residency list
CreateCmdBufFinish(t) ==
  /\ devState = "ready"
  /\ ApiCall[t].pc = "appended"
  /\ IF ~Usable(CreateQ.CmdListH)
     THEN /\ devState' = "aborted"
          /\ UNCHANGED apiVars
     ELSE /\ NativeLists' = [NativeLists EXCEPT ![CreateQ.CmdListH].ops =
                                 @ \o CloseOps(CreateQ)]
          /\ CmdBufferData' = Append(CmdBufferData, NewCmdBufferData(CreateQ))
          /\ CreateQ' = [CreateQ EXCEPT !.CmdListH = ApiCall[t].SaveCmdListH,
                                        !.toReset = <<>>,
                                        !.cur = NullEvent, !.prev = NullEvent,
                                        !.resident = {}]
          /\ ApiCall' = [ApiCall EXCEPT ![t] =
                [IdleCall EXCEPT !.ret = Len(CmdBufferData) + 1]]
          /\ UNCHANGED devState
  /\ UNCHANGED <<coreRest, listVars, poolVars, transferVars, ZeCall, pureVars>>

\* a freeCommandBuffer that pops the handles and pushes them nowhere
FreeCommandBufferDrops(avail, d) == avail

\* Level0Queue::freeCommandBuffer: AvailableDeviceEvents of the queue once
\* every handle of CmdBufData->Events has been popped and pushed to it
FreeCommandBuffer(avail, d) == avail \o d.Events

\* freeCmdBuf of the Level0CmdBufferData i, under its lock: the handles go
\* to the CreateQueue, the list is destroyed and the object deleted
FreeCmdBuf(t, i) ==
  /\ devState = "ready"
  /\ ApiCall[t].pc = "idle"
  /\ i \in 1..Len(CmdBufferData)
  /\ CmdBufferData[i].live
  /\ CreateQ' = [CreateQ EXCEPT !.avail = FreeCommandBuffer(@, CmdBufferData[i])]
  /\ NativeLists' =
       [NativeLists EXCEPT ![CmdBufferData[i].CmdListH].destroyed = TRUE]
  /\ CmdBufferData' = [CmdBufferData EXCEPT ![i] =
       [@ EXCEPT !.live = FALSE, !.Events = <<>>, !.had = CmdBufferData[i].Events]]
  /\ UNCHANGED <<ApiCall, coreVars, listVars, poolVars, transferVars, ZeCall, pureVars>>

\* the release of the command buffer the workers replay: no replay of it is
\* queued, and no worker is between its fetch and the lock_guard of
\* execCommandBuffer; replays that are past the lock_guard may still run
Released ==
  /\ CmdBufData # NoCmdBufData
  /\ \A g \in Groups :
       /\ \A i \in 1..Len(WorkQueue[g]) :
            type[WorkQueue[g][i]] # "COMMAND_BUFFER_KHR"
       /\ \A i \in 1..Len(BatchWorkQueue[g]) :
            type[BatchWorkQueue[g][i][1]] # "COMMAND_BUFFER_KHR"
  /\ \A w \in Workers :
       pc[w] \notin {"cb_submitted", "cb_check", "cb_create", "cb_read", "cb_lock"}

\* a freeCommandBuffer that does not wait for the lock
FreeCommandBufferLockFree(d) == TRUE

\* std::lock_guard<std::mutex> Guard(CmdBufData->Lock) of freeCommandBuffer
FreeCommandBufferLock(d) == d.Lock = <<>>

\* freeCommandBuffer of the Level0CmdBufferData the workers replay, up to the
\* end of its lock_guard: the handles go to the AvailableDeviceEvents of the
\* CreateQueue and the native list is destroyed
FreeCommandBufferLocked ==
  /\ devState = "ready"
  /\ FreeCall.pc = "idle"
  /\ Released
  /\ FreeCommandBufferLock(CmdBufObjs[CmdBufData])
  /\ FreeCall' = [ pc |-> "locked", data |-> CmdBufData ]
  /\ CreateQ' = [CreateQ EXCEPT !.avail = FreeCommandBuffer(@, CmdBufObjs[CmdBufData])]
  /\ CmdBufObjs' = [CmdBufObjs EXCEPT ![CmdBufData] =
        [@ EXCEPT !.Lock = IF @ = <<>> THEN "freeCommandBuffer" ELSE @,
                  !.Events = <<>>]]
  /\ UNCHANGED <<devVars, groupVars, queueVars, workerVars, handles, uninitPc,
                 CmdBufData, CBData, replayed, eventVars, nextId, histVars,
                 shape, madeResident, listVars, poolVars, transferVars,
                 NativeLists, ApiCall, CmdBufferData, ZeCall, kernelRun,
                 setupResult, syncCalls, syncDone, hostList, FillLaunch>>

\* freeCommandBuffer: the lock_guard ends, delete CmdBufData
FreeCommandBufferDelete ==
  /\ FreeCall.pc = "locked"
  /\ FreeCall' = [FreeCall EXCEPT !.pc = "deleted"]
  /\ CmdBufObjs' = [CmdBufObjs EXCEPT ![FreeCall.data].Lock =
        IF @ = "freeCommandBuffer" THEN <<>> ELSE @]
  /\ UNCHANGED <<devVars, groupVars, queueVars, workerVars, handles, uninitPc,
                 CmdBufData, CBData, replayed, eventVars, nextId, histVars,
                 shape, madeResident, listVars, poolVars, transferVars,
                 apiVars, ZeCall, kernelRun, setupResult, syncCalls, syncDone,
                 hostList, FillLaunch>>

\* createCmdBuf of the device, for the command buffer the workers replay,
\* by the one thread that finalizes it: createCommandBuffer of the
\* CreateQueue of the universal group, and the store of the result in
\* CmdBuf->data[dev_id]
CreateCmdBufEager ==
  /\ devState = "ready"
  /\ CreateQueue["Universal"]
  /\ CmdBufData = NoCmdBufData
  /\ \A t \in Callers : ApiCall[t].pc = "idle"
  /\ \E made \in { CreateCommandBuffer(CreateQueueState) } :
       /\ StoreCreateQueue(made.queue)
       /\ CmdBufObjs' = Append(CmdBufObjs, made.data)
  /\ CmdBufData' = Len(CmdBufObjs) + 1
  /\ UNCHANGED <<devVars, groupVars, queueVars, workerVars, handles, uninitPc,
                 CBData, replayed, eventVars, nextId, histVars, shape,
                 madeResident, listVars, workerPools, transferVars, ApiCall,
                 CmdBufferData, ZeCall, pureVars>>

(* ---------------- Level0Queue::runThread and the exec functions ---------- *)

\* a worker that goes through its batch from the back
EventsBackwards(w) ==
  IF Command[w] # NoCmd THEN << Command[w] >>
  ELSE [ i \in 1..Len(WorkBatch[w]) |-> WorkBatch[w][Len(WorkBatch[w]) + 1 - i] ]

\* the events of the work item a worker holds
Events(w) == IF Command[w] # NoCmd THEN << Command[w] >> ELSE WorkBatch[w]

EventSet(w) == { Events(w)[i] : i \in 1..Len(Events(w)) }

\* the end of runThread's loop body: while (!ShouldExit)
LoopNext(w) == IF ShouldExit[w] THEN "exited" ELSE "get"

\* execCommand / execCommandBatch that skip zeCommandQueueExecuteCommandLists
ExecuteNothing(w) ==
  /\ pc[w] = "exec"
  /\ idx' = [idx EXCEPT ![w] = 1]
  /\ pc' = [pc EXCEPT ![w] = "running"]
  /\ UNCHANGED <<poolVars, listVars, shape, madeResident,
                 devVars, groupVars, queueVars, Command, WorkBatch, ShouldExit,
                 handles, uninitPc, cmdBufVars, eventVars, nextId, histVars>>
  /\ UNCHANGED <<sideVars, ZeCall>>

\* execCommand / execCommandBatch up to zeCommandQueueExecuteCommandLists: the
\* operations of every event of the work item are appended, the list is closed
\* and submitted
ExecuteCommandLists(w) ==
  /\ pc[w] = "exec"
  /\ \E built \in { AppendAll(QueueState(w), Events(w)) } :
     \E closed \in { CloseList(SyncMemHostPtrs(MakeMemResident(built))) } :
       /\ StoreQueueState(w, closed)
       /\ madeResident' = [ c \in Cmds |->
             IF c \in EventSet(w) THEN built.resident ELSE madeResident[c] ]
  /\ listState' = [listState EXCEPT ![w] = "closed"]
  /\ native' = [ c \in Cmds |-> IF c \in EventSet(w) THEN "submitted" ELSE native[c] ]
  /\ idx' = [idx EXCEPT ![w] = 1]
  /\ pc' = [pc EXCEPT ![w] = "running"]
  /\ UNCHANGED <<shape, devVars, groupVars, queueVars, Command, WorkBatch,
                 ShouldExit, handles, uninitPc, cmdBufVars, status, type,
                 nextId, histVars>>
  /\ UNCHANGED <<sideVars, ZeCall>>

\* the status pocl_update_event_running (and, in a batch,
\* pocl_update_event_submitted before it) leaves an event in
AfterUpdateRunning(st) == "running"

\* pocl_update_event_running of the next event of the work item
UpdateEventRunning(w) ==
  /\ pc[w] = "running"
  /\ status' = [status EXCEPT ![Events(w)[idx[w]]] = AfterUpdateRunning(@)]
  /\ IF idx[w] < Len(Events(w))
     THEN /\ idx' = [idx EXCEPT ![w] = @ + 1]
          /\ pc' = pc
     ELSE /\ idx' = [idx EXCEPT ![w] = 0]
          /\ pc' = [pc EXCEPT ![w] = "sync"]
  /\ UNCHANGED <<poolVars, listVars, shape, madeResident,
                 devVars, groupVars, queueVars, Command, WorkBatch, ShouldExit,
                 handles, uninitPc, cmdBufVars, type, native, nextId, histVars>>
  /\ UNCHANGED <<sideVars, ZeCall>>

\* zeCommandQueueSynchronize returns; execCommandBuffer leaves its lock_guard
CommandQueueSynchronize(w) ==
  /\ pc[w] = "sync"
  /\ ZeCall' = [ZeCall EXCEPT ![w].timeout = UINT64_MAX]
  /\ native' = [ c \in Cmds |-> IF c \in EventSet(w) THEN "synced" ELSE native[c] ]
  /\ IF CBData[w] # NoCmdBufData
     THEN /\ CmdBufObjs' = [CmdBufObjs EXCEPT ![CBData[w]].Lock = <<>>]
          /\ CBData' = [CBData EXCEPT ![w] = NoCmdBufData]
     ELSE UNCHANGED <<CmdBufObjs, CBData>>
  /\ UNCHANGED replayed
  /\ idx' = [idx EXCEPT ![w] = 1]
  /\ pc' = [pc EXCEPT ![w] = "complete"]
  /\ UNCHANGED <<poolVars, listVars, shape, madeResident,
                 devVars, groupVars, queueVars, Command, WorkBatch, ShouldExit,
                 handles, uninitPc, CmdBufData, status, type, nextId, histVars>>
  /\ UNCHANGED sideVars

\* a synchronize that goes on although its native call has failed
NativeCallFailsIgnored(w) ==
  /\ devState # "aborted"
  /\ \/ pc[w] = "exec"
     \/ pc[w] = "sync"
     \/ pc[w] = "cb_lock" /\ CmdBufObjs[CBData[w]].Lock = <<>>
  /\ UNCHANGED devState
  /\ ZeCall' = [ZeCall EXCEPT ![w] =
       [ Res |-> "ZE_RESULT_ERROR",
         timeout |-> IF pc[w] = "sync" THEN UINT64_MAX ELSE @.timeout ]]
  /\ UNCHANGED <<coreRest, listVars, poolVars, sideVars>>

\* LEVEL0_CHECK_ABORT with a result that is not ZE_RESULT_SUCCESS: of
\* zeCommandQueueExecuteCommandLists in execCommand and execCommandBatch, of
\* zeCommandQueueSynchronize (called with the timeout UINT64_MAX), and in
\* execCommandBuffer of zeContextMakeMemoryResident (makeMemResident, if there
\* is a pointer to make resident) or of the submission of the cached list.
\* POCL_ABORT ends the process, whatever the worker had built before.
NativeCallFails(w) ==
  /\ devState # "aborted"
  /\ \/ pc[w] = "exec"
     \/ pc[w] = "sync"
     \/ /\ pc[w] = "cb_lock" /\ CmdBufObjs[CBData[w]].Lock = <<>>
        /\ CmdBufObjs[CBData[w]].MemPtrsToMakeResident # {}
     \/ pc[w] = "cb_lock" /\ CmdBufObjs[CBData[w]].Lock = <<>>
  /\ devState' = "aborted"
  /\ ZeCall' = [ZeCall EXCEPT ![w] =
       [ Res |-> "ZE_RESULT_ERROR",
         timeout |-> IF pc[w] = "sync" THEN UINT64_MAX ELSE @.timeout ]]
  /\ UNCHANGED <<coreRest, listVars, poolVars, sideVars>>

\* POCL_UPDATE_EVENT_COMPLETE_MSG of the next event of the work item; after
\* the last one the exec function returns, runThread calls reset() and its
\* loop body ends
UpdateEventComplete(w) ==
  /\ pc[w] = "complete"
  /\ status' = [status EXCEPT ![Events(w)[idx[w]]] = "complete"]
  /\ IF idx[w] < Len(Events(w))
     THEN /\ idx' = [idx EXCEPT ![w] = @ + 1]
          /\ UNCHANGED <<pc, Command, WorkBatch, poolVars, listVars>>
     ELSE /\ idx' = [idx EXCEPT ![w] = 0]
          /\ Command' = [Command EXCEPT ![w] = NoCmd]
          /\ WorkBatch' = [WorkBatch EXCEPT ![w] = <<>>]
          /\ pc' = [pc EXCEPT ![w] = LoopNext(w)]
          /\ StoreQueueState(w, ResetQueue(QueueState(w)))
          /\ listState' = [listState EXCEPT ![w] = "open"]
  /\ UNCHANGED <<shape, madeResident,
                 devVars, groupVars, queueVars, ShouldExit, handles, uninitPc,
                 cmdBufVars, type, native, nextId, histVars>>
  /\ UNCHANGED <<sideVars, ZeCall>>

\* runThread, for a batch that is one command-buffer replay:
\* pocl_update_event_submitted
UpdateEventSubmitted(w) ==
  /\ pc[w] = "cb_submitted"
  /\ status' = [status EXCEPT ![WorkBatch[w][1]] = "submitted"]
  /\ pc' = [pc EXCEPT ![w] = "cb_check"]
  /\ UNCHANGED <<poolVars, listVars, shape, madeResident,
                 devVars, groupVars, queueVars, Command, WorkBatch, ShouldExit,
                 idx, handles, uninitPc, cmdBufVars, type, native, nextId, histVars>>
  /\ UNCHANGED <<sideVars, ZeCall>>

\* execCommandBuffer: if (CmdBuf->data[dev_id] == nullptr), read without
\* any lock
CmdBufCheck(w) ==
  /\ pc[w] = "cb_check"
  /\ pc' = [pc EXCEPT ![w] =
               IF CmdBufData = NoCmdBufData THEN "cb_create" ELSE "cb_read"]
  /\ UNCHANGED <<poolVars, listVars, shape, madeResident,
                 devVars, groupVars, queueVars, Command, WorkBatch, ShouldExit,
                 idx, handles, uninitPc, cmdBufVars, eventVars, nextId, histVars>>
  /\ UNCHANGED <<sideVars, ZeCall>>

\* execCommandBuffer: CmdBuf->data[dev_id] = createCommandBuffer(CmdBuf)
CmdBufCreate(w) ==
  /\ pc[w] = "cb_create"
  /\ \E made \in { CreateCommandBuffer(QueueState(w)) } :
       /\ StoreQueueState(w, made.queue)
       /\ CmdBufObjs' = Append(CmdBufObjs, made.data)
  /\ CmdBufData' = Len(CmdBufObjs) + 1
  /\ pc' = [pc EXCEPT ![w] = "cb_read"]
  /\ UNCHANGED <<listState, shape, madeResident,
                 devVars, groupVars, queueVars, Command, WorkBatch, ShouldExit,
                 idx, handles, uninitPc, CBData, replayed, eventVars, nextId,
                 histVars>>
  /\ UNCHANGED <<sideVars, ZeCall>>

\* execCommandBuffer: CmdBufData = (Level0CmdBufferData *)CmdBuf->data[dev_id]
CmdBufRead(w) ==
  /\ pc[w] = "cb_read"
  /\ CBData' = [CBData EXCEPT ![w] = CmdBufData]
  /\ pc' = [pc EXCEPT ![w] = "cb_lock"]
  /\ UNCHANGED <<poolVars, listVars, shape, madeResident,
                 devVars, groupVars, queueVars, Command, WorkBatch, ShouldExit,
                 idx, handles, uninitPc, CmdBufData, CmdBufObjs, replayed,
                 eventVars, nextId, histVars>>
  /\ UNCHANGED <<sideVars, ZeCall>>

\* execCommandBuffer: takes the lock_guard, swaps the residency list of the
\* command buffer in, calls makeMemResident (which clears the list it made
\* resident), swaps back and submits the cached list
CmdBufExecute(w) ==
  LET d == CmdBufObjs[CBData[w]]
  IN
  /\ pc[w] = "cb_lock"
  /\ d.Lock = <<>>
  /\ CmdBufObjs' = [CmdBufObjs EXCEPT ![CBData[w]] =
        [d EXCEPT !.Lock = w, !.MemPtrsToMakeResident = {}]]
  /\ madeResident' = [ c \in Cmds |->
        IF c \in EventSet(w) THEN d.MemPtrsToMakeResident ELSE madeResident[c] ]
  /\ replayed' = [ c \in Cmds |->
        IF c \in EventSet(w)
        THEN [ data |-> CBData[w], CmdListH |-> d.CmdListH, Events |-> d.Events ]
        ELSE replayed[c] ]
  /\ native' = [ c \in Cmds |-> IF c \in EventSet(w) THEN "submitted" ELSE native[c] ]
  /\ idx' = [idx EXCEPT ![w] = 1]
  /\ pc' = [pc EXCEPT ![w] = "running"]
  /\ UNCHANGED <<poolVars, listVars, shape,
                 devVars, groupVars, queueVars, Command, WorkBatch, ShouldExit,
                 handles, uninitPc, CmdBufData, CBData, status, type, nextId,
                 histVars>>
  /\ UNCHANGED <<sideVars, ZeCall>>

\* pocl_exec_command, the generic executor of a device that prefers host
\* queues: marks the event running
HostExecRunning(w) ==
  /\ pc[w] = "host_running"
  /\ status' = [status EXCEPT ![Command[w]] = "running"]
  /\ pc' = [pc EXCEPT ![w] = "host_complete"]
  /\ UNCHANGED <<poolVars, listVars, shape, madeResident,
                 devVars, groupVars, queueVars, Command, WorkBatch, ShouldExit,
                 idx, handles, uninitPc, cmdBufVars, type, native, nextId, histVars>>
  /\ UNCHANGED <<sideVars, ZeCall>>

\* pocl_exec_command: marks the event complete; runThread's loop body ends
HostExecComplete(w) ==
  /\ pc[w] = "host_complete"
  /\ status' = [status EXCEPT ![Command[w]] = "complete"]
  /\ Command' = [Command EXCEPT ![w] = NoCmd]
  /\ pc' = [pc EXCEPT ![w] = LoopNext(w)]
  /\ UNCHANGED <<poolVars, listVars, shape, madeResident,
                 devVars, groupVars, queueVars, WorkBatch, ShouldExit, idx,
                 handles, uninitPc, cmdBufVars, type, native, nextId, histVars>>
  /\ UNCHANGED <<sideVars, ZeCall>>

(* ---------------- Level0Device::~Level0Device, uninit, ~Level0Queue ------ *)

\* the order in which ~Level0Device calls uninit()
TeardownOrder == << "Universal", "Compute", "Copy" >>

\* the group ~Level0Device is at
CurrentGroup ==
  LET left == { i \in 1..Len(TeardownOrder) : uninitPc[TeardownOrder[i]] # "done" }
  IN  TeardownOrder[CHOOSE i \in left : \A j \in left : i <= j]

\* the queues of a group that Queues.clear() has not destroyed yet
LiveQueues(g) == { w \in GroupWorkers(g) : handles[w] = "live" }

\* Level0QueueGroup::uninit up to Lock.unlock()
Uninit(g) ==
  /\ devState \in {"ready", "teardown"}
  /\ uninitPc[g] = "idle"
  /\ g = CurrentGroup
  /\ ThreadExitRequested' = [ThreadExitRequested EXCEPT ![g] = TRUE]
  /\ NotifyAll(g)
  /\ uninitPc' = [uninitPc EXCEPT ![g] = "clear"]
  /\ devState' = "teardown"
  /\ UNCHANGED <<poolVars, listVars, shape, madeResident,
                 QGroupProps, PrefersZeQueues, SupportsCmdQBatching, Available,
                 NumQueues, CreateQueue, queueVars, Command, WorkBatch,
                 ShouldExit, idx, handles, cmdBufVars, eventVars, nextId, histVars>>
  /\ UNCHANGED <<sideVars, ZeCall>>

\* ~Level0Queue without its Thread.join()
NotJoined(w) == TRUE

\* whether ~Level0Queue may release the handles of worker w
Joined(w) == pc[w] = "exited"

\* Queues.clear(): ~Level0Queue of the next queue joins its thread and destroys
\* its command list and command queue
DestroyQueue(g) ==
  /\ uninitPc[g] = "clear"
  /\ LiveQueues(g) # {}
  /\ LET w == CHOOSE v \in LiveQueues(g) : \A u \in LiveQueues(g) : v[2] <= u[2]
     IN  /\ Joined(w)
         /\ handles' = [handles EXCEPT ![w] = "destroyed"]
  /\ UNCHANGED <<poolVars, listVars, shape, madeResident,
                 devVars, groupVars, queueVars, workerVars, uninitPc,
                 cmdBufVars, eventVars, nextId, histVars>>
  /\ UNCHANGED <<sideVars, ZeCall>>

\* uninit() returns; after the last group the device is destroyed
UninitReturn(g) ==
  /\ uninitPc[g] = "clear"
  /\ LiveQueues(g) = {}
  /\ uninitPc' = [uninitPc EXCEPT ![g] = "done"]
  /\ devState' = IF g = TeardownOrder[Len(TeardownOrder)] THEN "destroyed" ELSE devState
  /\ UNCHANGED <<poolVars, listVars, shape, madeResident,
                 QGroupProps, PrefersZeQueues, SupportsCmdQBatching, groupVars,
                 queueVars, workerVars, handles, cmdBufVars, eventVars, nextId,
                 histVars>>
  /\ UNCHANGED <<sideVars, ZeCall>>

(* ---------------- specifications ---------------- *)

\* the command types that make runThread take its different paths: where the
\* device prefers Level Zero queues every type but the command buffer is
\* executed like a kernel launch, and where it prefers host queues every type
\* but the kernel launch goes to the generic executor
WorkerKinds ==
  IF PrefersZeQueues THEN {"NDRANGE_KERNEL", "COMMAND_BUFFER_KHR"}
  ELSE {"NDRANGE_KERNEL", "READ_BUFFER"}

\* a step of the thread of worker w, as long as the process lives
WorkerStep(w) ==
  /\ devState # "aborted"
  /\ \/ GetWorkOrWait(w)
     \/ ExecuteCommandLists(w)
     \/ UpdateEventRunning(w)
     \/ CommandQueueSynchronize(w)
     \/ UpdateEventComplete(w)
     \/ UpdateEventSubmitted(w)
     \/ CmdBufCheck(w)
     \/ CmdBufCreate(w)
     \/ CmdBufRead(w)
     \/ CmdBufExecute(w)
     \/ HostExecRunning(w)
     \/ HostExecComplete(w)

Teardown == \E g \in Groups : Uninit(g) \/ DestroyQueue(g) \/ UninitReturn(g)

Next ==
  \/ \E kind \in WorkerKinds : PushCommand(kind, PlainShape)
  \/ \E kind \in BatchKinds, k \in 1..MaxCmds : PushCommandBatch(kind, k, PlainShape)
  \/ \E w \in Workers : WorkerStep(w)
  \/ \E w \in Workers : SpuriousWakeup(w)
  \/ Teardown

\* a device with one universal queue family: its workers, the enqueue side
\* and the teardown, in any interleaving
Spec == Init /\ [][Next]_vars

\* the enqueue side of a device, for any hardware report: the setup of the
\* queue groups and the commands and batches pushed afterwards
NextDevice ==
  \/ SetupQueueGroupProperties
  \/ \E kind \in AllKinds : PushCommand(kind, PlainShape)
  \/ \E kind \in BatchKinds, k \in 1..MaxCmds : PushCommandBatch(kind, k, PlainShape)

SpecDevice == InitDevice /\ [][NextDevice]_vars

\* the kernel launches the execution is checked with: zero-sized or not, with
\* or without a USE_HOST_PTR buffer, of a kernel with indirect accesses
LaunchShapes == { sh \in Shapes : sh.AccessedPointers = IndirectPtrs }

\* a step of the thread of worker w with a kernel launch or a batch of them
ExecStep(w) ==
  \/ GetWorkOrWait(w)
  \/ ExecuteCommandLists(w)
  \/ UpdateEventRunning(w)
  \/ CommandQueueSynchronize(w)
  \/ UpdateEventComplete(w)

\* the execution of kernel launches of every shape, single and batched, on
\* a device that prefers Level Zero queues and batches
NextExec ==
  \/ \E sh \in LaunchShapes : PushCommand("NDRANGE_KERNEL", sh)
  \/ \E k \in 1..MaxCmds, sh \in LaunchShapes :
        PushCommandBatch("NDRANGE_KERNEL", k, sh)
  \/ \E w \in Workers : ExecStep(w)
  \/ \E w \in Workers : SpuriousWakeup(w)

InitExec == Init /\ PrefersZeQueues = TRUE /\ SupportsCmdQBatching = TRUE

SpecExec == InitExec /\ [][NextExec]_vars

\* the native sync handles: the workers of a device build, close and reset
\* their lists in any interleaving and take handles from the device's pools
NextEvents ==
  \/ \E w \in Workers : AllocNextFreeEvent(w)
  \/ \E w \in Workers : CloseCmdList(w)
  \/ \E w \in Workers : ResetList(w)

SpecEvents == Init /\ [][NextEvents]_vars

\* data transfers to disjoint regions, executed one at a time and as a batch,
\* on a device with or without global offsets
InitTransfers ==
  /\ InitReady
  /\ QGroupProps = UniversalOnly(1)
  /\ PrefersZeQueues = TRUE
  /\ SupportsCmdQBatching = TRUE
  /\ SupportsGlobalOffsets \in BOOLEAN
  /\ transfers \in TransferSeqs
  /\ memSingle = InitialMemory
  /\ doneSingle = 0
  /\ memBatch = InitialMemory
  /\ doneBatch = FALSE
  /\ NoSetup

NextTransfers == ExecCommandTransfer \/ ExecCommandBatchTransfers

SpecTransfers == InitTransfers /\ [][NextTransfers]_vars

\* the rectangular writes the lists are checked with: to a USE_HOST_PTR
\* buffer or to another buffer
RectShapes == { sh \in Shapes : sh.TotalWGs = 1 /\ sh.AccessedPointers = {} }

\* the execution of kernel launches and rectangular writes, single and
\* batched, on a device that prefers Level Zero queues and batches
NextLists ==
  \/ \E sh \in LaunchShapes : PushCommand("NDRANGE_KERNEL", sh)
  \/ \E sh \in RectShapes : PushCommand("WRITE_BUFFER_RECT", sh)
  \/ \E n \in 1..MaxCmds, sh \in RectShapes :
        PushCommandBatch("WRITE_BUFFER_RECT", n, sh)
  \/ \E w \in Workers : ExecStep(w)

SpecLists == InitExec /\ [][NextLists]_vars

\* the argument setup of a driver thread, for kernels with and without local
\* arguments and automatic local buffers
InitLocals ==
  /\ InitReady /\ NoTransfers
  /\ QGroupProps = UniversalOnly(1)
  /\ PrefersZeQueues = TRUE
  /\ SupportsCmdQBatching = TRUE
  /\ kernelRun \in KernelRuns
  /\ setupResult = "none"
  /\ NoSyncCalls

SpecLocals == InitLocals /\ [][SetupKernelArgs]_vars

\* the calls of memfillImpl: a size of whole patterns, on any device
InitFill ==
  /\ InitReady /\ NoTransfers /\ NoKernelRun
  /\ QGroupProps = UniversalOnly(1)
  /\ PrefersZeQueues = TRUE
  /\ SupportsCmdQBatching = TRUE
  /\ syncCalls = <<>> /\ syncDone = 0 /\ hostList = EmptyList
  /\ FreeCall = NoFreeCall
  /\ \E Size \in FillSizes, PatternSize \in PatternSizes, MaxWGSize \in MaxWGSizes :
       /\ Size[1] % PatternSize = 0
       /\ FillLaunch = [ pc |-> "called", Size |-> Size, PatternSize |-> PatternSize,
                         MaxWGSize |-> MaxWGSize, TotalWGsX |-> << 0, 0, 0 >>,
                         WGSizeX |-> 0 ]

SpecFill == InitFill /\ [][MemfillImplCall]_vars

\* the calls of syncUseMemHostPtr for the commands of one list, up to
\* MaxTransfers of them, and the syncMemHostPtrs that closes it
InitHostSync ==
  /\ InitReady /\ NoTransfers /\ NoKernelRun
  /\ QGroupProps = UniversalOnly(1)
  /\ PrefersZeQueues = TRUE
  /\ SupportsCmdQBatching = TRUE
  /\ syncCalls \in UNION { [ 1..n -> SyncCalls ] : n \in 0..MaxTransfers }
  /\ syncDone = 0
  /\ hostList = EmptyList
  /\ FreeCall = NoFreeCall
  /\ FillLaunch = NoFillLaunch

NextHostSync == SyncUseMemHostPtrCall \/ SyncMemHostPtrsCall

SpecHostSync == InitHostSync /\ [][NextHostSync]_vars

\* the workers and the enqueue side of a device whose native calls may fail
NextNative ==
  \/ \E kind \in WorkerKinds : PushCommand(kind, PlainShape)
  \/ \E kind \in BatchKinds, k \in 1..MaxCmds : PushCommandBatch(kind, k, PlainShape)
  \/ \E w \in Workers : WorkerStep(w)
  \/ \E w \in Workers : NativeCallFails(w)

SpecNative == Init /\ [][NextNative]_vars

\* a hardware report with a universal family only, or with a copy family
\* after it
UniversalAndCopy(n) ==
  UniversalOnly(n) \o << [compute |-> FALSE, copy |-> TRUE, numQueues |-> 1] >>

\* a device that prefers Level Zero queues and batches, with or without a
\* copy queue group
InitOrdinal ==
  /\ \E n \in QueueCounts :
       QGroupProps \in { UniversalOnly(n), UniversalAndCopy(n) }
  /\ PrefersZeQueues = TRUE
  /\ SupportsCmdQBatching = TRUE
  /\ devState = "ready"
  /\ Available = [ g \in Groups |-> GroupIsInitialized(QGroupProps, g) ]
  /\ NumQueues = [ g \in Groups |-> InitCount(QGroupProps, g) ]
  /\ CreateQueue = [ g \in Groups |-> GroupIsInitialized(QGroupProps, g) ]
  /\ pc = PcAfterInit(QGroupProps)
  /\ handles = HandlesAfterInit(QGroupProps)
  /\ IdleRest /\ NoTransfers /\ NoSetup

\* replays of the command buffer, pushed as single commands and as batches,
\* with its list recorded by createCmdBuf or by the worker that replays first
NextOrdinal ==
  \/ PushCommand("COMMAND_BUFFER_KHR", PlainShape)
  \/ PushCommandBatch("COMMAND_BUFFER_KHR", 1, PlainShape)
  \/ CreateCmdBufEager
  \/ \E w \in Workers : WorkerStep(w)

SpecOrdinal == InitOrdinal /\ [][NextOrdinal]_vars

\* the lists the workers close: those of kernel launches of every shape, of
\* other commands and of batches, and the list a worker records for the
\* command buffer
NextClose ==
  \/ \E sh \in LaunchShapes : PushCommand("NDRANGE_KERNEL", sh)
  \/ \E kind \in WorkerKinds : PushCommand(kind, PlainShape)
  \/ \E kind \in BatchKinds, k \in 1..MaxCmds : PushCommandBatch(kind, k, PlainShape)
  \/ \E w \in Workers : WorkerStep(w)

SpecClose == Init /\ [][NextClose]_vars

\* the workers replay a command buffer, which the application releases once
\* it has enqueued its last replay
NextReplay ==
  \/ /\ FreeCall.pc = "idle"
     /\ \E kind \in WorkerKinds : PushCommand(kind, PlainShape)
  \/ /\ FreeCall.pc = "idle"
     /\ \E kind \in BatchKinds, k \in 1..MaxCmds : PushCommandBatch(kind, k, PlainShape)
  \/ \E w \in Workers : WorkerStep(w)
  \/ FreeCommandBufferLocked
  \/ FreeCommandBufferDelete

SpecReplay == Init /\ [][NextReplay]_vars

\* the threads of the application finalize and release command buffers in
\* any interleaving
NextCmdBuf ==
  \/ \E t \in Callers : CreateCmdBufBegin(t)
  \/ \E t \in Callers : CreateCmdBufAppend(t)
  \/ \E t \in Callers : CreateCmdBufFinish(t)
  \/ \E t \in Callers, i \in 1..MaxCmdBufs : FreeCmdBuf(t, i)

SpecCmdBuf == Init /\ [][NextCmdBuf]_vars

\* the workers run whenever they can, and a teardown that has begun goes on
Fairness ==
  /\ \A w \in Workers : WF_vars(WorkerStep(w))
  /\ WF_vars(devState = "teardown" /\ Teardown)

SpecFair == Spec /\ Fairness

(* ---------------- properties ---------------- *)

\* how often event c is in the single-command FIFO of group g
InWorkQueue(g, c) ==
  Cardinality({ i \in 1..Len(WorkQueue[g]) : WorkQueue[g][i] = c })

\* how often event c is in a batch of the batch FIFO of group g
InBatchWorkQueue(g, c) ==
  Cardinality({ p \in (1..Len(BatchWorkQueue[g])) \X Cmds :
                  /\ p[2] <= Len(BatchWorkQueue[g][p[1]])
                  /\ BatchWorkQueue[g][p[1]][p[2]] = c })

RECURSIVE SumOver(_, _, _)
SumOver(f(_, _), S, c) ==
  IF S = {} THEN 0
  ELSE LET g == CHOOSE x \in S : TRUE
       IN  f(g, c) + SumOver(f, S \ {g}, c)

Queued(c) == SumOver(InWorkQueue, Groups, c) + SumOver(InBatchWorkQueue, Groups, c)

\* the workers that hold event c
Holders(c) == { w \in Workers : c \in EventSet(w) }

\* C1: every pushed command or batch member is, at every moment, either once
\* in one FIFO and not yet fetched, or fetched exactly once; it is held by at
\* most one worker; what was never pushed is neither queued nor fetched.
C1_FetchedExactlyOnce ==
  \A c \in Cmds :
    /\ Queued(c) + fetches[c] = (IF fifo[c] = "none" THEN 0 ELSE 1)
    /\ Cardinality(Holders(c)) <= fetches[c]

\* two workers of one group hold different work items, a command and a batch
C1_Witness ==
  \E w1 \in Workers, w2 \in Workers :
    /\ w1 # w2
    /\ w1[1] = w2[1]
    /\ Command[w1] # NoCmd
    /\ WorkBatch[w2] # <<>>
    /\ fetches[Command[w1]] = 1

\* the paths of runThread that execute through the native queue
NativePaths == {"exec", "cb_check", "cb_submitted"}

\* C2: on the paths through execCommand, execCommandBatch and
\* execCommandBuffer an event is running only if the native list with its
\* operations has been submitted, and complete only if the synchronize of that
\* submission has returned.
C2_RunningAfterSubmitCompleteAfterSync ==
  \A c \in Cmds :
    path[c] \in NativePaths =>
      /\ status[c] = "running" => native[c] \in {"submitted", "synced"}
      /\ status[c] = "complete" => native[c] = "synced"

\* a command-buffer replay is running on an unsynchronized submission while a
\* command executed by execCommand or execCommandBatch is complete
C2_Witness ==
  \E c \in Cmds, d \in Cmds :
    /\ path[c] \in {"cb_check", "cb_submitted"}
    /\ status[c] = "running" /\ native[c] = "submitted"
    /\ path[d] = "exec"
    /\ status[d] = "complete" /\ native[d] = "synced"

Rank(st) ==
  CASE st = "none"      -> 0
    [] st = "queued"    -> 1
    [] st = "submitted" -> 2
    [] st = "running"   -> 3
    [] st = "complete"  -> 4

\* C3: no step moves the status of an event backwards in
\* queued, submitted, running, complete; a complete event stays complete; and
\* getWorkOrWait hands out a single command only in state submitted.
C3_StatusMovesForward ==
  [][ /\ \A c \in Cmds :
           /\ Rank(status'[c]) >= Rank(status[c])
           /\ status[c] = "complete" => status'[c] = "complete"
      /\ \A w \in Workers :
           (Command[w] = NoCmd /\ Command'[w] # NoCmd)
              => status[Command'[w]] = "submitted" ]_vars

\* the event of a batched command-buffer replay, pushed queued, is complete
\* while a single command is running
C3_Witness ==
  \E c \in Cmds, d \in Cmds :
    /\ path[c] = "cb_submitted" /\ status[c] = "complete"
    /\ fifo[d] = "single" /\ status[d] = "running"

BecomesRunning(c) == status[c] # "running" /\ status'[c] = "running"

\* d was pushed before c, into the same FIFO of the same group
PushedBefore(d, c) ==
  /\ d < c
  /\ fifo[c] # "none"
  /\ fifo[d] = fifo[c]
  /\ placed[d] = placed[c]

\* C4 as stated: commands pushed with pushWork into one work queue reach
\* running in the order of the pushes, however many workers the group has.
C4_RunningInPushOrder ==
  [][ \A c \in Cmds, d \in Cmds :
        (BecomesRunning(c) /\ PushedBefore(d, c) /\ fifo[c] = "single")
           => status[d] \in {"running", "complete"} ]_vars

\* C4 amended: the entries of one FIFO are fetched in the order of the pushes,
\* and in a group with one worker they reach running in that order.
C4_RunningInPushOrderOneWorker ==
  [][ \A c \in Cmds, d \in Cmds :
        /\ (fetches'[c] > fetches[c] /\ PushedBefore(d, c)) => fetches'[d] >= 1
        /\ (BecomesRunning(c) /\ PushedBefore(d, c) /\ NumQueues[placed[c]] = 1)
              => status[d] \in {"running", "complete"} ]_vars

\* the one worker of a group has completed the first of two single commands
\* and is running the second
C4_Witness ==
  /\ NumQueues["Universal"] = 1
  /\ fifo[1] = "single" /\ fifo[2] = "single"
  /\ status[1] = "complete" /\ status[2] = "running"

\* C5: a worker that has left runThread has seen the shutdown request, and
\* neither FIFO of its work queue holds work.
C5_ExitsOnlyWhenDrained ==
  \A w \in Workers :
    pc[w] = "exited" =>
      /\ ThreadExitRequested[w[1]]
      /\ WorkQueue[w[1]] = <<>>
      /\ BatchWorkQueue[w[1]] = <<>>

\* the positions of a worker thread that is still in runThread
InRunThread == {"get", "wait", "exec", "running", "sync", "complete",
                "cb_submitted", "cb_check", "cb_create", "cb_read", "cb_lock",
                "host_running", "host_complete"}

\* C6: the native queue and list of a worker are destroyed only after the
\* shutdown flag of its group is set and its thread has left runThread.
C6_JoinedBeforeDestroyed ==
  \A w \in Workers :
    /\ handles[w] = "destroyed" => (ThreadExitRequested[w[1]] /\ pc[w] = "exited")
    /\ pc[w] \in InRunThread => handles[w] = "live"

\* the handles of one worker are destroyed while another worker of the group
\* is still waiting for its synchronize
C6_Witness ==
  \E w1 \in Workers, w2 \in Workers :
    /\ w1[1] = w2[1]
    /\ handles[w1] = "destroyed"
    /\ pc[w2] = "sync"

\* C7: once uninit() has been called, every worker leaves runThread and the
\* teardown returns.
C7_UninitTerminates ==
  (devState = "teardown") ~>
     ( /\ \A w \in Workers : pc[w] \in {"none", "exited"}
       /\ devState = "destroyed" )

\* uninit() has set the flag while one worker waits for its synchronize and
\* another, woken up, is about to look at the queue
C7_Witness ==
  \E w1 \in Workers, w2 \in Workers :
    /\ uninitPc[w1[1]] = "clear"
    /\ w1[1] = w2[1]
    /\ pc[w1] = "sync"
    /\ pc[w2] = "get" /\ ~ShouldExit[w2]

\* the group the compute class and the other commands are meant for
ClassTarget(kind) ==
  IF kind \in {"NDRANGE_KERNEL", "FILL_BUFFER", "FILL_IMAGE", "SVM_MEMFILL",
               "MEMFILL_INTEL"}
  THEN IF Available["Compute"] THEN "Compute" ELSE "Universal"
  ELSE IF Available["Copy"] THEN "Copy" ELSE "Universal"

\* C8: a command pushed with pushCommand is once in the work queue of the
\* group of its class (compute: Compute, else Universal; others: Copy, else
\* Universal) and in no other queue.
C8_PlacedByClass ==
  \A c \in Cmds :
    fifo[c] = "single" =>
      \A g \in Groups :
        /\ InWorkQueue(g, c) = (IF g = ClassTarget(type[c]) THEN 1 ELSE 0)
        /\ InBatchWorkQueue(g, c) = 0

\* with a Compute group and no Copy group, a fill-image command is in the
\* Compute queue and a read-buffer command in the Universal queue
C8_Witness ==
  \E c \in Cmds, d \in Cmds :
    /\ type[c] = "FILL_IMAGE" /\ InWorkQueue("Compute", c) = 1
    /\ type[d] = "READ_BUFFER" /\ InWorkQueue("Universal", d) = 1

\* C9 as stated: every command goes to the Compute group if that is
\* available, else to the Copy group, else to the Universal group.
C9_ComputeThenCopyThenUniversal ==
  \A c \in Cmds :
    fifo[c] = "single" =>
      InWorkQueue(IF Available["Compute"] THEN "Compute"
                  ELSE IF Available["Copy"] THEN "Copy" ELSE "Universal", c) = 1

\* C9 amended: a step that pushes a single command appends it to the queue of
\* the Compute group (else Universal) when it is of the compute class, and to
\* the queue of the Copy group (else Universal) otherwise.
C9_ForwardedByClass ==
  [][ \A c \in Cmds :
        (fifo[c] = "none" /\ fifo'[c] = "single") =>
           WorkQueue' = [WorkQueue EXCEPT ![ClassTarget(type'[c])] = Append(@, c)]
    ]_vars

\* with a Compute group and no Copy group, a copy command is in the
\* Universal queue
C9_Witness ==
  \E c \in Cmds :
    /\ Available["Compute"] /\ ~Available["Copy"]
    /\ type[c] = "COPY_BUFFER"
    /\ InWorkQueue("Universal", c) = 1

\* C10: after a successful setupQueueGroupProperties the Universal group is
\* initialized, with at least one worker and its CreateQueue.
C10_UniversalAlwaysExists ==
  devState = "ready" =>
    /\ Available["Universal"]
    /\ NumQueues["Universal"] >= 1
    /\ CreateQueue["Universal"]

\* the workers of the Universal group that are blocked in Cond.wait
WaitingUniversal == { w \in GroupWorkers("Universal") : pc[w] = "wait" }

\* C11: a pushCommandBatch on a device without batching support aborts and
\* leaves every FIFO and every worker as it was; on a batching device the
\* batch is appended to the batch FIFO of the Universal group, nothing else
\* is queued, and exactly one of the waiting workers (if any) is woken.
C11_BatchAbortsOrIsQueued ==
  [][ /\ (devState # "aborted" /\ devState' = "aborted") =>
           /\ ~SupportsCmdQBatching
           /\ UNCHANGED <<WorkQueue, BatchWorkQueue, pc, status, fifo, nextId>>
      /\ (nextId' > nextId /\ fifo'[nextId] = "batch") =>
           /\ SupportsCmdQBatching
           /\ devState' = devState
           /\ BatchWorkQueue' =
                 [BatchWorkQueue EXCEPT !["Universal"] =
                    Append(@, [ i \in 1..(nextId' - nextId) |-> nextId + i - 1 ])]
           /\ WorkQueue' = WorkQueue
           /\ IF WaitingUniversal = {} THEN pc' = pc
              ELSE \E w \in WaitingUniversal : pc' = [pc EXCEPT ![w] = "get"]
      /\ ~SupportsCmdQBatching =>
           \A g \in Groups : BatchWorkQueue'[g] = <<>>
    ]_vars

\* the process has aborted in pushCommandBatch while a worker was waiting and
\* another was executing a single command; no batch is queued
C11_Witness ==
  /\ devState = "aborted"
  /\ \E w1 \in Workers, w2 \in Workers : pc[w1] = "wait" /\ pc[w2] = "sync"
  /\ \A g \in Groups : BatchWorkQueue[g] = <<>>

\* the handles getNewEvent returned before this step
IssuedBefore == { issued[i] : i \in 1..Len(issued) }

\* C12: every getNewEvent returns a handle that is not null and was never
\* returned before; a request that finds the front pool exhausted is served
\* from a pool allocated for it.
C12_NewEventIsFresh ==
  [][ Len(issued') > Len(issued) =>
        LET h == issued'[Len(issued')]
        IN  /\ Len(issued') = Len(issued) + 1
            /\ h # NullEvent
            /\ h \notin IssuedBefore
            /\ EventPools[1].LastIdx = EventPoolSize =>
                  /\ Len(EventPools') = Len(EventPools) + 1
                  /\ h[1] = Len(EventPools')
                  /\ \A i \in 1..Len(EventPools) :
                        EventPools'[i + 1] = EventPools[i]
    ]_vars

\* the first pool is exhausted, a further pool has been allocated, and both
\* workers hold a handle of the new pool
C12_Witness ==
  /\ Len(EventPools) = InitialPools + 1
  /\ Len(issued) > EventPoolSize
  /\ \E w1 \in Workers, w2 \in Workers :
        /\ w1 # w2
        /\ CurrentEventH[w1][1] = InitialPools + 1
        /\ CurrentEventH[w2][1] = InitialPools + 1

\* the kernel launches with a total work-group count of zero
ZeroSized(c) == type[c] = "NDRANGE_KERNEL" /\ shape[c].TotalWGs = 0

\* C13: while a worker executes a single zero-sized launch, its native list
\* holds no operation that moves data or launches a kernel and no operation
\* that signals or resets a sync handle, whatever buffers the launch carries.
C13_ZeroSizeAppendsNothing ==
  \A w \in Workers :
    (Command[w] # NoCmd /\ ZeroSized(Command[w])) =>
      \A i \in 1..Len(CmdListOps[w]) :
        /\ CmdListOps[w][i].op \notin {"LaunchKernel", "MemoryCopy"}
        /\ CmdListOps[w][i].handle = NullEvent

\* C14: the event of a zero-sized launch is never running.
C14_ZeroSizeNeverRunning ==
  \A c \in Cmds : ZeroSized(c) => status[c] # "running"

\* the replays that execCommandBuffer has submitted
Replays == { c \in Cmds : replayed[c].data # NoCmdBufData }

\* C15: for the command buffer and the device the native list is
\* recorded at most once, whatever number of workers replay it and however
\* their replays interleave.
C15_RecordedAtMostOnce == Len(CmdBufObjs) <= 1

\* the residency list createCommandBuffer captures for CmdBuf->cmds
CapturedResidency ==
  UNION { CmdBufCmds[i].shape.AccessedPointers : i \in 1..Len(CmdBufCmds) }

\* C16: every replay of the command buffer makes resident every pointer
\* of the residency list captured at record time, and the captured list of a
\* recorded buffer stays what it was at record time.
C16_ReplayMakesCapturedResident ==
  /\ \A c \in Replays : CapturedResidency \subseteq madeResident[c]
  /\ \A i \in 1..Len(CmdBufObjs) :
        CmdBufObjs[i].MemPtrsToMakeResident = CapturedResidency

\* C17: two replays of the same recorded command buffer submit the same
\* cached list with the same owned handles and do the same residency calls
\* before it: the second replay does what the first one did.
C17_ReplaysAreIdentical ==
  \A c, d \in Replays :
    replayed[c].data = replayed[d].data =>
      /\ replayed[c].CmdListH = replayed[d].CmdListH
      /\ replayed[c].Events = replayed[d].Events
      /\ madeResident[c] = madeResident[d]

\* the events the operations of a list were appended for, in list order
ListEvents(ops) ==
  LET own == SelectSeq(ops, LAMBDA o : o.event # NoCmd)
  IN  [ i \in 1..Len(own) |-> own[i].event ]

\* the events pushed as part of a batch that is no command-buffer replay
BatchedEvents ==
  { c \in Cmds : fifo[c] = "batch" /\ type[c] # "COMMAND_BUFFER_KHR" }

\* worker w holds a batch that is no command-buffer replay
HoldsBatch(w) ==
  /\ WorkBatch[w] # <<>>
  /\ type[WorkBatch[w][1]] # "COMMAND_BUFFER_KHR"

\* C19: a worker that holds a batch of N commands that is no
\* command-buffer replay appends the operations of all N in batch order into
\* its one list and submits that list in one step for all N; no event of a
\* batch is submitted or synchronized a second time; the one synchronize is
\* for all N; and the N events are marked complete in batch order, after the
\* synchronize.
C19_BatchOneListOneSubmitOneSync ==
  [][ /\ \A c \in BatchedEvents :
           /\ native[c] = "submitted" => native'[c] \in {"submitted", "synced"}
           /\ native[c] = "synced" => native'[c] = "synced"
      /\ \A w \in Workers : HoldsBatch(w) =>
           LET b == WorkBatch[w]
               n == Len(b)
           IN  /\ (\E i \in 1..n : native[b[i]] = "none" /\ native'[b[i]] # "none")
                     => /\ \A i \in 1..n :
                              native[b[i]] = "none" /\ native'[b[i]] = "submitted"
                        /\ ListEvents(CmdListOps'[w]) = b
                        /\ listState'[w] = "closed"
               /\ (\E i \in 1..n : native[b[i]] # "synced" /\ native'[b[i]] = "synced")
                     => \A i \in 1..n :
                          native[b[i]] = "submitted" /\ native'[b[i]] = "synced"
               /\ \A i \in 1..n :
                     (status[b[i]] # "complete" /\ status'[b[i]] = "complete")
                     => /\ native[b[i]] = "synced"
                        /\ \A j \in 1..(i - 1) : status[b[j]] = "complete"
                        /\ \A j \in (i + 1)..n : status'[b[j]] # "complete"
    ]_vars

\* a worker has submitted and synchronized the one list of a batch of two
\* and has marked the first of the two complete
C19_Witness ==
  \E w \in Workers :
    /\ HoldsBatch(w)
    /\ Len(WorkBatch[w]) >= 2
    /\ pc[w] = "complete"
    /\ ListEvents(CmdListOps[w]) = WorkBatch[w]
    /\ \A i \in 1..Len(WorkBatch[w]) : native[WorkBatch[w][i]] = "synced"
    /\ status[WorkBatch[w][1]] = "complete"
    /\ status[WorkBatch[w][2]] # "complete"

\* queue q2 is queue q with one entry pushed at its back
PushedAtBack(q, q2) ==
  /\ Len(q2) = Len(q) + 1
  /\ SubSeq(q2, 1, Len(q)) = q

\* queue q2 is queue q with its oldest entry taken
FrontTaken(q, q2) == q # <<>> /\ q2 = Tail(q)

\* C20: each FIFO of a work queue is dequeued in insertion order: a step
\* that changes the single-command FIFO of a group either pushes one command
\* at its back or hands its oldest command to a worker of the group that holds
\* no work, and a step that changes the batch FIFO either pushes one batch at
\* its back or hands its oldest batch to such a worker.
C20_FifosDequeuedInInsertionOrder ==
  [][ \A g \in Groups :
        /\ WorkQueue'[g] # WorkQueue[g] =>
              \/ PushedAtBack(WorkQueue[g], WorkQueue'[g])
              \/ /\ FrontTaken(WorkQueue[g], WorkQueue'[g])
                 /\ \E w \in GroupWorkers(g) :
                       /\ Command[w] = NoCmd /\ WorkBatch[w] = <<>>
                       /\ Command'[w] = Head(WorkQueue[g])
                       /\ fetches'[Head(WorkQueue[g])] = fetches[Head(WorkQueue[g])] + 1
        /\ BatchWorkQueue'[g] # BatchWorkQueue[g] =>
              \/ PushedAtBack(BatchWorkQueue[g], BatchWorkQueue'[g])
              \/ /\ FrontTaken(BatchWorkQueue[g], BatchWorkQueue'[g])
                 /\ \E w \in GroupWorkers(g) :
                       /\ Command[w] = NoCmd /\ WorkBatch[w] = <<>>
                       /\ WorkBatch'[w] = Head(BatchWorkQueue[g])
    ]_vars

\* two single commands were pushed to one group one after the other; a worker
\* has fetched the first and not completed it, and the second is still the
\* one entry of the FIFO
C20_Witness ==
  /\ fifo[1] = "single" /\ fifo[2] = "single"
  /\ placed[1] = placed[2]
  /\ fetches[1] = 1 /\ status[1] # "complete"
  /\ fetches[2] = 0 /\ WorkQueue[placed[2]] = << 2 >>

\* both ways to execute the commands have finished
TransfersDone == doneSingle = Len(transfers) /\ doneBatch

\* C18: the commands of a sequence that targets disjoint memory regions,
\* executed one at a time and executed as one batch, leave the same contents
\* in the buffers, in the host memory and in the host copies of USE_HOST_PTR
\* buffers.
C18_BatchEqualsSingle == TransfersDone => memSingle = memBatch

\* C21: a fetch hands a batch to a worker only if the single-command
\* FIFO of its group is empty at that moment, and no worker ever holds a
\* single command and a batch from one fetch.
C21_BatchOnlyWhenNoSingle ==
  [][ \A w \in Workers :
        /\ (WorkBatch'[w] # WorkBatch[w] /\ WorkBatch'[w] # <<>>)
              => /\ WorkQueue[w[1]] = <<>>
                 /\ Command[w] = NoCmd /\ Command'[w] = NoCmd
        /\ (Command'[w] # Command[w] /\ Command'[w] # NoCmd)
              => WorkBatch[w] = <<>> /\ WorkBatch'[w] = <<>>
        /\ Command'[w] = NoCmd \/ WorkBatch'[w] = <<>> ]_vars

\* the one worker of the group holds a batch that was pushed before a single
\* command, which it fetched first and has completed
C21_Witness ==
  /\ NumQueues["Universal"] = 1
  /\ fifo[1] = "batch" /\ fifo[2] = "single"
  /\ status[2] = "complete"
  /\ WorkBatch[<< "Universal", 1 >>] = << 1 >>
  /\ status[1] # "complete"

\* C22: when zeCommandListCreate fails in createCommandBuffer, the call
\* returns nullptr and leaves no replay state behind: no Level0CmdBufferData,
\* no native list and no handle is created, and nothing goes to the handle
\* sets or the residency list of the queue.
C22_FailedRecordingLeavesNothing ==
  [][ \A t \in Callers :
        (ApiCall'[t] # ApiCall[t] /\ ApiCall'[t].pc = "idle"
           /\ ApiCall'[t].Res = "ZE_RESULT_ERROR")
        => /\ ApiCall'[t].ret = NoCmdBufData
           /\ CmdBufferData' = CmdBufferData
           /\ NativeLists' = NativeLists
           /\ issued' = issued /\ EventPools' = EventPools
           /\ CreateQ'.avail = CreateQ.avail
           /\ CreateQ'.toReset = CreateQ.toReset
           /\ CreateQ'.resident = CreateQ.resident ]_vars

\* a recording has failed after another one has succeeded
C22_Witness ==
  /\ ApiCall["a"].Res = "ZE_RESULT_ERROR" /\ ApiCall["a"].pc = "idle"
  /\ ApiCall["a"].ret = NoCmdBufData
  /\ ApiCall["b"].ret = 1
  /\ Len(CmdBufferData) = 1 /\ CmdBufferData[1].live

\* the handles of a sequence of handles
HandlesOf(hs) == { hs[i] : i \in 1..Len(hs) }

\* C23: freeCmdBuf releases what the command buffer owned: its native list is
\* destroyed, every handle of its Events is afterwards in the available
\* handles of the queue (as often as it was owned), and the freed object keeps
\* no handle.
C23_FreeReleasesEverything ==
  [][ \A i \in 1..Len(CmdBufferData) :
        (CmdBufferData[i].live /\ ~CmdBufferData'[i].live)
        => /\ NativeLists'[CmdBufferData[i].CmdListH].destroyed
           /\ CmdBufferData'[i].Events = <<>>
           /\ CreateQ'.avail = CreateQ.avail \o CmdBufferData[i].Events
           /\ \A h \in HandlesOf(CmdBufferData[i].Events) :
                h \in HandlesOf(CreateQ'.avail) ]_vars

\* a command buffer has been freed, and a handle it owned has been issued
\* again to a command buffer recorded afterwards
C23_Witness ==
  \E i, j \in 1..Len(CmdBufferData) :
    /\ ~CmdBufferData[i].live /\ CmdBufferData[i].had # <<>>
    /\ CmdBufferData[j].live
    /\ HandlesOf(CmdBufferData[i].had) \cap HandlesOf(CmdBufferData[j].Events) # {}

\* the handles in the current and previous slot caller t builds its list
\* with: createCommandBuffer reads and writes CurrentEventH and PreviousEventH
\* of the queue it runs on
SlotsOfCall(t) ==
  IF ApiCall[t].pc \in {"created", "appended"}
  THEN {CreateQ.cur, CreateQ.prev} \ {NullEvent}
  ELSE {}

\* C28: every handle is in one place only (the available or to-reset handles
\* of one queue, or the Events of one command buffer, and issued by a pool
\* once), and no handle is in the current or previous slot of two list
\* constructions that are under way at once.
C28_HandleInOnePlace ==
  /\ \A i, j \in 1..Len(CmdBufferData) :
       i # j => HandlesOf(CmdBufferData[i].Events)
                  \cap HandlesOf(CmdBufferData[j].Events) = {}
  /\ \A i \in 1..Len(CmdBufferData) :
       HandlesOf(CmdBufferData[i].Events)
         \cap (HandlesOf(CreateQ.avail) \cup HandlesOf(CreateQ.toReset)) = {}
  /\ HandlesOf(CreateQ.avail) \cap HandlesOf(CreateQ.toReset) = {}
  /\ \A k, l \in 1..Len(issued) : issued[k] = issued[l] => k = l
  /\ \A t, u \in Callers : t # u => SlotsOfCall(t) \cap SlotsOfCall(u) = {}

\* C24: a native submission, synchronize or residency call that fails ends
\* the process: once a call of a worker has failed the process has aborted,
\* and in the failing step and ever after no event changes its status and no
\* worker fetches or goes on; and every synchronize a worker has called had
\* the timeout UINT64_MAX.
C24_NativeFailureAborts ==
  [][ /\ (\E w \in Workers : ZeCall'[w].Res # "ZE_RESULT_SUCCESS")
           => /\ devState' = "aborted"
              /\ UNCHANGED <<status, pc, Command, WorkBatch, WorkQueue,
                             BatchWorkQueue, fetches, native>>
      /\ \A w \in Workers :
           /\ ZeCall'[w].timeout \in {NoTimeout, UINT64_MAX}
           /\ (pc[w] = "sync" /\ ZeCall'[w] # ZeCall[w])
                => ZeCall'[w].timeout = UINT64_MAX ]_vars

\* the submission of worker w's list has been done, an event of it is
\* running, and the process has aborted in the synchronize of the worker
C24_Witness ==
  /\ devState = "aborted"
  /\ \E w \in Workers :
       /\ pc[w] = "sync" /\ ZeCall[w].timeout = UINT64_MAX
       /\ ZeCall[w].Res = "ZE_RESULT_ERROR"
       /\ \E c \in Cmds : status[c] = "running" /\ native[c] = "submitted"

\* the first address at or after x that is a multiple of the alignment
AlignedUp(x) ==
  CHOOSE a \in x..(x + MAX_EXTENDED_ALIGNMENT - 1) : a % MAX_EXTENDED_ALIGNMENT = 0

\* the address after buffers of these sizes placed one after another from
\* addr, each start aligned up
RECURSIVE PlacedAfter(_, _)
PlacedAfter(addr, sizes) ==
  IF sizes = <<>> THEN addr
  ELSE PlacedAfter(AlignedUp(addr + Head(sizes)), Tail(sizes))

\* whether one of the buffers of these sizes, placed one after another from
\* addr with each start aligned up, ends beyond base + limit
RECURSIVE EndsBeyond(_, _, _, _)
EndsBeyond(addr, sizes, base, limit) ==
  /\ sizes # <<>>
  /\ \/ (addr + Head(sizes)) - base > limit
     \/ EndsBeyond(AlignedUp(addr + Head(sizes)), Tail(sizes), base, limit)

\* C25 as stated: the setup returns CL_FAILED when one of the automatic local
\* buffers, placed one after another in the local memory with each start
\* aligned up, ends beyond local_mem_size, and CL_SUCCESS when they all fit;
\* nothing but their sizes, the alignment and local_mem_size decides.
C25_FitDecidesResult ==
  setupResult # "none" =>
    setupResult =
      IF EndsBeyond(0, kernelRun.local_sizes, 0, kernelRun.local_mem_size)
      THEN "CL_FAILED" ELSE "CL_SUCCESS"

\* C25, amended: the automatic local buffers are placed after the local
\* arguments of the kernel, from the address local_mem on, and it is the
\* addresses that are aligned up; the setup returns CL_FAILED when one of
\* the automatic local buffers then ends beyond local_mem + local_mem_size
\* and CL_SUCCESS when none does; local arguments that do not fit are only
\* caught by an assert.
C25_FitAfterLocalArgsDecidesResult ==
  /\ setupResult \in {"CL_SUCCESS", "CL_FAILED"} =>
       setupResult =
         IF EndsBeyond(PlacedAfter(kernelRun.local_mem, kernelRun.kernel_args),
                       kernelRun.local_sizes, kernelRun.local_mem,
                       kernelRun.local_mem_size)
         THEN "CL_FAILED" ELSE "CL_SUCCESS"
  /\ setupResult = "abort" =>
       /\ ~kernelRun.NDEBUG
       /\ PlacedAfter(kernelRun.local_mem, kernelRun.kernel_args)
            - kernelRun.local_mem > kernelRun.local_mem_size

\* a local argument and two automatic local buffers fill the local memory to
\* its last byte, and the setup has succeeded
C25_Witness ==
  /\ kernelRun.kernel_args = << 128 >>
  /\ kernelRun.local_sizes = << 128, 128 >>
  /\ kernelRun.local_mem = 1024
  /\ kernelRun.local_mem_size = 384
  /\ setupResult = "CL_SUCCESS"

\* the operations of a list that move data or launch a kernel, in the order
\* they were appended
Chain(ops) ==
  SelectSeq(ops, LAMBDA o : o.op \in {"LaunchKernel", "MemoryCopy",
                                      "MemoryCopyRegion"})

\* C26: in the list of every worker each data-moving operation or kernel
\* launch, the host-synchronization copies among them, signals a handle no
\* earlier operation of the list signals and waits on the handle of the
\* operation appended just before it (the first one on none).
C26_ListIsOneChain ==
  \A w \in Workers :
    LET ch == Chain(CmdListOps[w])
    IN  \A i \in 1..Len(ch) :
          /\ ch[i].handle # NullEvent
          /\ \A j \in 1..(i - 1) : ch[j].handle # ch[i].handle
          /\ ch[i].wait = IF i = 1 THEN NullEvent ELSE ch[i - 1].handle

\* the handles the operations of a list signal or reset
SignalledBy(ops) == { ops[i].handle : i \in 1..Len(ops) } \ {NullEvent}

\* C27: the handles allocNextFreeEvent hands out while a list is built are
\* pairwise distinct, and none of them is a handle of a list that still
\* exists, that of another worker or the worker's own: a list is given up
\* (reset) only after it has been submitted and synchronized, and its
\* handles are handed out again only after that.
C27_NoReissueBeforeSynchronize ==
  [][ \A w \in Workers :
        /\ (CmdListOps'[w] # CmdListOps[w] /\ CmdListOps'[w] # <<>>) =>
             LET ch == Chain(CmdListOps'[w])
             IN  /\ CmdListOps[w] = <<>>
                 /\ \A i, j \in 1..Len(ch) :
                      (ch[i].handle # NullEvent /\ ch[i].handle = ch[j].handle)
                         => i = j
                 /\ \A v \in Workers :
                      SignalledBy(CmdListOps'[w]) \cap SignalledBy(CmdListOps[v]) = {}
        /\ (CmdListOps[w] # <<>> /\ CmdListOps'[w] = <<>>) =>
             \A i \in 1..Len(CmdListOps[w]) :
               CmdListOps[w][i].event # NoCmd
                 => native[CmdListOps[w][i].event] = "synced" ]_vars

\* the one worker has completed its first command, and the list of its
\* second command signals the handle the first list signalled and reset
C27_Witness ==
  /\ NumQueues["Universal"] = 1
  /\ status[1] = "complete"
  /\ Len(issued) = 1
  /\ CmdListOps[<< "Universal", 1 >>] # <<>>
  /\ CmdListOps[<< "Universal", 1 >>][1].event = 2
  /\ CmdListOps[<< "Universal", 1 >>][1].handle = issued[1]

\* C29: getNewEvent allocates a pool only when no pool of the device has a
\* handle left: in a step in which the number of pools grows every pool
\* there was is exhausted.
C29_NewPoolOnlyWhenAllExhausted ==
  [][ Len(EventPools') > Len(EventPools)
        => \A i \in 1..Len(EventPools) : IsEmpty(EventPools[i]) ]_vars

\* the copies to the host a list holds: those queued in UseMemHostPtrsToSync
\* and those appended to the list
QueuedCopies(t) ==
  { [ dst |-> e.key[1], src |-> e.key[2], size |-> e.size ] : e \in t.sync }
  \cup { [ dst |-> t.list[i].dst, src |-> t.list[i].src,
           size |-> t.list[i].size ] : i \in 1..Len(t.list) }

\* the calls of syncUseMemHostPtr that have returned
ReturnedSyncCalls ==
  { syncCalls[i] : i \in 1..(IF syncDone < Len(syncCalls) THEN syncDone
                             ELSE Len(syncCalls)) }

\* C30: syncUseMemHostPtr queues no copy to the host when the device pointer
\* of the buffer equals its host pointer, even with CL_MEM_USE_HOST_PTR, and
\* none when the flag is absent; when the flag is set and the pointers
\* differ it queues a copy of the written range. So the copies a list holds
\* are those of the ranges written to USE_HOST_PTR buffers whose host memory
\* is apart from the device allocation.
C30_CopyQueuedIffFlagAndPointersApart ==
  QueuedCopies(hostList) =
    { [ dst |-> SyncMems[c.mem].mem_host_ptr + c.offset,
        src |-> SyncMems[c.mem].mem_ptr + c.offset, size |-> c.size ] :
      c \in { x \in ReturnedSyncCalls :
                /\ SyncMems[x.mem].use_host_ptr
                /\ SyncMems[x.mem].mem_host_ptr # SyncMems[x.mem].mem_ptr } }

\* the workers inside the lock_guard of execCommandBuffer for object i: from
\* the residency calls to the return of the synchronize
Replaying(i) ==
  { w \in Workers : CBData[w] = i /\ pc[w] \in {"running", "sync"} }

Occurrences(hs, h) == Cardinality({ i \in 1..Len(hs) : hs[i] = h })

\* the handles the operations of a list signal, in the order of the operations
Allocated(ops) ==
  LET sig == SelectSeq(ops, LAMBDA o : o.op \notin {"Barrier", "EventReset"}
                                       /\ o.handle # NullEvent)
  IN  [ i \in 1..Len(sig) |-> sig[i].handle ]

\* ops is a list closeCmdList has closed and Rs are the handles it has reset:
\* the operations of the commands, one barrier that waits on the handle
\* allocated last (on none if none was), then one reset per handle allocated,
\* in the order of allocation, and nothing after them
ClosedBy(ops, Rs) ==
  \E b \in 1..Len(ops) :
    /\ \A i \in 1..(b - 1) : ops[i].op \notin {"Barrier", "EventReset"}
    /\ ops[b] = ListOp("Barrier", NoCmd, NullEvent,
                       IF Rs = <<>> THEN NullEvent ELSE Rs[Len(Rs)])
    /\ Len(ops) = b + Len(Rs)
    /\ \A i \in 1..Len(Rs) :
         ops[b + i] = ListOp("EventReset", NoCmd, Rs[i], NullEvent)
    /\ Rs = Allocated(ops)

\* the handles the list of worker w was closed with: the last of its
\* available handles
ClosedWith(w) ==
  LET n == Len(Allocated(CmdListOps[w]))
      a == AvailableDeviceEvents[w]
  IN  IF n > Len(a) THEN <<>> ELSE SubSeq(a, Len(a) - n + 1, Len(a))

\* handle h is in one place only: once among the available handles of the
\* workers and the handles the command buffer objects own
InOnePlace(h) ==
  Cardinality({ w \in Workers : Occurrences(AvailableDeviceEvents[w], h) > 0 })
  + Cardinality({ i \in 1..Len(CmdBufObjs) : Occurrences(CmdBufObjs[i].Events, h) > 0 })
  = 1
  /\ \A w \in Workers : Occurrences(AvailableDeviceEvents[w], h) <= 1
  /\ \A i \in 1..Len(CmdBufObjs) : Occurrences(CmdBufObjs[i].Events, h) <= 1

\* C32: closeCmdList appends one barrier that waits on the current handle
\* (on none when there is none), then one reset for every handle allocated
\* since the previous close, in their order, and nothing else; afterwards
\* the to-reset set is empty and each of those handles is in exactly one
\* place: the available handles of the worker for an ordinary list, the
\* handles the Level0CmdBufferData owns for a list recorded for a command
\* buffer.
C32_CloseBarrierResetsThenOnePlace ==
  /\ \A w \in Workers :
       (CmdListOps[w] # <<>> /\ pc[w] \in {"running", "sync", "complete"}
          /\ CBData[w] = NoCmdBufData) =>
         /\ ClosedBy(CmdListOps[w], ClosedWith(w))
         /\ DeviceEventsToReset[w] = <<>>
         /\ \A i \in 1..Len(ClosedWith(w)) : InOnePlace(ClosedWith(w)[i])
  /\ \A i \in 1..Len(CmdBufObjs) :
       /\ ClosedBy(CmdBufObjs[i].CmdListH, CmdBufObjs[i].Events)
       /\ \A j \in 1..Len(CmdBufObjs[i].Events) : InOnePlace(CmdBufObjs[i].Events[j])
  /\ \A w \in Workers : pc[w] = "cb_read" => DeviceEventsToReset[w] = <<>>

\* a worker has closed an ordinary list with a handle to reset while a list
\* recorded for the command buffer owns its handles
C32_Witness ==
  /\ CmdBufObjs # <<>>
  /\ CmdBufObjs[1].Events # <<>>
  /\ \E w \in Workers :
       /\ pc[w] = "running" /\ CBData[w] = NoCmdBufData
       /\ Len(CmdListOps[w]) > 1

\* worker w has nothing left of an earlier list: no current and no previous
\* handle, no handle to reset, no host copy to bring up to date and nothing
\* to make resident
CleanSlate(w) ==
  /\ CurrentEventH[w] = NullEvent
  /\ PreviousEventH[w] = NullEvent
  /\ DeviceEventsToReset[w] = <<>>
  /\ UseMemHostPtrsToSync[w] = {}
  /\ MemPtrsToMakeResident[w] = {}

\* C33: whenever a worker is about to build a list (execCommand,
\* execCommandBatch, or createCommandBuffer for a lazy recording) its current
\* and previous handles, its to-reset set, its host-sync list and its
\* residency list are empty, and they are empty again whenever it is about
\* to fetch its next work item, whatever the item before was (a command, a
\* batch, a replay with or without a recording).
C33_CleanSlateAtStartAndFetch ==
  \A w \in Workers :
    pc[w] \in {"get", "wait", "exec", "cb_submitted", "cb_check", "cb_create"}
      => CleanSlate(w)

\* a replay of a recorded list is complete and a worker is about to fetch
\* again, while another worker is about to build a list
C33_Witness ==
  \E w1, w2 \in Workers :
    /\ pc[w1] = "get"
    /\ \E c \in Cmds : /\ type[c] = "COMMAND_BUFFER_KHR"
                       /\ status[c] = "complete"
                       /\ replayed[c].data # NoCmdBufData
    /\ pc[w2] = "exec"
    /\ issued # <<>>

\* C34: every command and every batch that pushCommand or pushCommandBatch
\* has put into a FIFO (they do so only before the teardown begins) is
\* fetched by a worker of its group at some time, when the workers run
\* whenever they can and the process is not aborted.
C34_PushedEventuallyFetched ==
  \A c \in Cmds : (Queued(c) > 0) ~> (fetches[c] > 0 \/ devState = "aborted")

\* the calls of syncUseMemHostPtr with Offset and Size that queue a copy
QueuingCalls ==
  { i \in 1..Len(syncCalls) :
      /\ ~syncCalls[i].rect
      /\ SyncMems[syncCalls[i].mem].use_host_ptr
      /\ SyncMems[syncCalls[i].mem].mem_host_ptr # SyncMems[syncCalls[i].mem].mem_ptr }

\* the largest size the calls of the list ask for at the addresses of call i
LargestSize(i) ==
  LET same == { j \in QueuingCalls : /\ syncCalls[j].mem = syncCalls[i].mem
                                     /\ syncCalls[j].offset = syncCalls[i].offset }
  IN  CHOOSE n \in { syncCalls[j].size : j \in same } :
        \A j \in same : syncCalls[j].size <= n

\* C35: when several commands of one list queue a copy to the host for the
\* same pair of host address and device address with different sizes, the
\* copy syncMemHostPtrs appends when the list is closed has the largest of
\* the sizes, so that all that the list wrote is copied to the host.
C35_ClosedCopyCoversLargest ==
  syncDone = Len(syncCalls) + 1 =>
    \A i \in QueuingCalls :
      \E j \in 1..Len(hostList.list) :
        hostList.list[j] =
          MemoryCopy(SyncMems[syncCalls[i].mem].mem_host_ptr + syncCalls[i].offset,
                     SyncMems[syncCalls[i].mem].mem_ptr + syncCalls[i].offset,
                     LargestSize(i))

\* C36: when createCommandBuffer fails because zeCommandListCreate fails, the
\* recording queue is as it was before the call: its own CmdListH, its
\* current and previous handle, its available handles and its bookkeeping
\* lists are unchanged, and its list is one the next recording can use.
C36_FailedRecordingKeepsQueue ==
  [][ \A t \in Callers :
        (ApiCall'[t] # ApiCall[t] /\ ApiCall'[t].pc = "idle"
           /\ ApiCall'[t].Res = "ZE_RESULT_ERROR")
        => /\ CreateQ' = CreateQ
           /\ Usable(CreateQ'.CmdListH) ]_vars

\* what the operations of a list are, in order
OpNames(ops) == [ i \in 1..Len(ops) |-> ops[i].op ]

\* the operations of the list createCommandBuffer records for the Command
\* Nodes of the command buffer when no other call uses the CreateQueue
RecordedAlone ==
  OpNames(CreateCommandBuffer(
            [CreateQueueState EXCEPT !.toReset = <<>>, !.cur = NullEvent,
                                     !.prev = NullEvent, !.resident = {}]
          ).data.CmdListH)

\* C37: createCmdBuf and freeCmdBuf calls made at the same time by different
\* threads do not interfere: the native list of every command buffer they
\* return holds exactly the operations of its own Command Nodes in order,
\* closed with its barrier and the resets of the handles it owns, which are
\* the handles its list uses; and once the calls have returned the CreateQueue
\* has its own list handle and available handles that no command buffer owns.
C37_ConcurrentCallsDoNotInterfere ==
  (devState = "ready" /\ \A t \in Callers : ApiCall[t].Res = "ZE_RESULT_SUCCESS") =>
    /\ \A i \in 1..Len(CmdBufferData) :
         CmdBufferData[i].live =>
           /\ Usable(CmdBufferData[i].CmdListH)
           /\ ClosedBy(NativeLists[CmdBufferData[i].CmdListH].ops,
                       CmdBufferData[i].Events)
           /\ OpNames(NativeLists[CmdBufferData[i].CmdListH].ops) = RecordedAlone
    /\ (\A t \in Callers : ApiCall[t].pc = "idle") =>
         /\ CreateQ.CmdListH = 1
         /\ \A i \in 1..Len(CmdBufferData) :
              CmdBufferData[i].live =>
                HandlesOf(CmdBufferData[i].Events) \cap HandlesOf(CreateQ.avail) = {}

\* C38: the cached native list of a command buffer is submitted to a native
\* queue of the queue family its list was created for, whether createCmdBuf
\* or a worker recorded it and whether the replay came through pushCommand
\* or pushCommandBatch.
C38_ReplayedOnOrdinalOfList ==
  \A c \in Cmds :
    replayed[c].data # NoCmdBufData =>
      CmdBufObjs[replayed[c].data].QueueOrdinal = FirstOrd(QGroupProps, placed[c])

\* the device allocations of the buffers
DeviceAllocations ==
  UNION { Range(Mems[m].mem_ptr, Cardinality(Units)) : m \in DOMAIN Mems }

\* C39: a fill-buffer command with an offset and a size that are multiples
\* of the pattern size writes the pattern to the destination units from the
\* offset up to offset + size and to no other unit of the buffers, on a
\* device with global offsets and on a device without them.
C39_FillWritesExactlyItsRegion ==
  (doneSingle = 1 /\ transfers[1].type = "FILL_BUFFER") =>
    \A a \in DeviceAllocations :
      memSingle[a] = IF a \in DeviceRegion(transfers[1]) THEN Pattern
                     ELSE InitialMemory[a]

\* TotalWGsX * WGSizeX as a number, in limbs
GroupsTimesSize(TotalWGsX, WGSizeX) ==
  LET c1 == TotalWGsX[1] * WGSizeX
      c2 == TotalWGsX[2] * WGSizeX + c1 \div Limb
  IN  << c1 % Limb, c2 % Limb, c2 \div Limb >>

\* C40: in memfillImpl, for a Size that is a multiple of PatternSize, the
\* launched group count times the chosen group size is Size / PatternSize,
\* and the chosen group size is at most the maximum work-group size of the
\* device.
C40_OneWorkItemPerPatternElement ==
  FillLaunch.pc = "launched" =>
    /\ GroupsTimesSize(FillLaunch.TotalWGsX, FillLaunch.WGSizeX)
         = DivSizeT(FillLaunch.Size, FillLaunch.PatternSize)
    /\ FillLaunch.WGSizeX <= FillLaunch.MaxWGSize
====
